---- MODULE Spec2Model ----
(***************************************************************************)
(* Route computation of the itinerary service: the waypoint extraction,    *)
(* the routing and places provider calls, the attraction enrichment and    *)
(* the delete-then-insert replacement of an itinerary's Route records, as  *)
(* done by calculateRoutes (src/src/controllers/route.controller.js), with *)
(* the itinerary update and delete handlers that share the store.          *)
(***************************************************************************)
EXTENDS Integers, Sequences, FiniteSets, TLC

(***************************************************************************)
(* Bounds of the model.                                                    *)
(***************************************************************************)
MaxReq == 2          \* calculateRoutes requests issued in one behaviour
MaxUpdates == 1      \* updateItinerary / deleteItinerary requests
MaxDays == 2         \* day plans of an itinerary given to the extractor
MaxPlaces == 3       \* places on the day plans of such an itinerary, in all
MaxWps == 3          \* waypoints searched by one enrichment run
MaxMeters == 300     \* every distance up to it is given to the cost estimate
MaxRuns == 2         \* calculateRoutes runs in a row on the same provider answers
MaxTrips == 2        \* itineraries of the user given to getMyTrips
MaxElapsed == 1      \* milliseconds that pass between two readings of the clock
MaxBookings == 1     \* services of each kind in the planningBookings of a completed trip
MaxViews == 2        \* classifications asked for in one run of the store

(***************************************************************************)
(* JavaScript values: a number field is either absent or holds a number.   *)
(***************************************************************************)
Undefined == <<>>
Num(v) == <<v>>
\* the value is truthy in a JavaScript condition (a && b): present and not 0
Truthy(x) == x # Undefined /\ x # Num(0)

RECURSIVE Flatten(_)
Flatten(ss) == IF ss = <<>> THEN <<>> ELSE Head(ss) \o Flatten(Tail(ss))

SeqsUpTo(S, n) == UNION {[1..k -> S] : k \in 0..n}

(***************************************************************************)
(* Waypoint extraction (calculateRoutes, lines 35-84).                     *)
(***************************************************************************)
\* the guard of line 43: place.location && location.latitude && location.longitude
HasCoordinates(place) ==
    /\ place.location # Undefined
    /\ Truthy(place.location[1].latitude)
    /\ Truthy(place.location[1].longitude)

\* the object pushed at lines 44-49 (place.name is required by placeSchema)
PlaceWaypoint(place) ==
    [latitude |-> place.location[1].latitude,
     longitude |-> place.location[1].longitude,
     name |-> place.name,
     placeId |-> place.placeId]

\* the places of one day that pass the guard, in the order of day.places
DayWaypoints(day) ==
    LET kept == SelectSeq(day.places, HasCoordinates)
    IN  [i \in 1..Len(kept) |-> PlaceWaypoint(kept[i])]

\* dayPlans.forEach: the days are visited in the order they are stored
WaypointsFromDayPlans(itinerary) ==
    Flatten([d \in 1..Len(itinerary.dayPlans) |-> DayWaypoints(itinerary.dayPlans[d])])

\* a fallback that appends the destinations to the day-plan places
IntermediateWaypoints_Mixed(itinerary) ==
    WaypointsFromDayPlans(itinerary) \o itinerary.destinations

\* lines 62-73: day-plan places first, the destinations field as fallback
IntermediateWaypoints(itinerary) ==
    LET waypointsFromDayPlans == WaypointsFromDayPlans(itinerary)
    IN  IF Len(waypointsFromDayPlans) > 0 THEN waypointsFromDayPlans
        ELSE IF Len(itinerary.destinations) > 0 THEN itinerary.destinations
        ELSE <<>>

\* the projection of lines 79-84
ToWaypoint(location) ==
    [latitude |-> location.latitude,
     longitude |-> location.longitude,
     name |-> location.name,
     placeId |-> location.placeId]

\* lines 75-84
BuildWaypoints(itinerary) ==
    LET all == <<itinerary.startLocation>> \o IntermediateWaypoints(itinerary)
                  \o <<itinerary.endLocation>>
    IN  [i \in 1..Len(all) |-> ToWaypoint(all[i])]

\* the waypoints stored on a Route (lines 135-139); order is the 0-based index
RouteWaypoints(waypoints) ==
    [i \in 1..Len(waypoints) |->
        [location |-> [latitude |-> waypoints[i].latitude,
                       longitude |-> waypoints[i].longitude],
         name |-> waypoints[i].name,
         order |-> i - 1]]

(***************************************************************************)
(* Routing provider adapter (GoogleDirectionsService).                     *)
(***************************************************************************)
RECURSIVE SumDistance(_)
SumDistance(legs) ==
    IF legs = <<>> THEN 0 ELSE Head(legs).distance + SumDistance(Tail(legs))

RECURSIVE SumDuration(_)
SumDuration(legs) ==
    IF legs = <<>> THEN 0 ELSE Head(legs).duration + SumDuration(Tail(legs))

\* a parse that takes the totals from the first leg alone
ParseDirectionsResponse_FirstLegTotals(route) ==
    [totalDistance |-> IF route.legs = <<>> THEN 0 ELSE route.legs[1].distance,
     totalDuration |-> IF route.legs = <<>> THEN 0 ELSE route.legs[1].duration,
     segments |-> [i \in 1..Len(route.legs) |->
                      [distance |-> route.legs[i].distance,
                       duration |-> route.legs[i].duration]],
     overview |-> [summary |-> route.summary]]

\* parseDirectionsResponse applied to data.routes[0]
ParseDirectionsResponse(route) ==
    [totalDistance |-> SumDistance(route.legs),
     totalDuration |-> SumDuration(route.legs),
     segments |-> [i \in 1..Len(route.legs) |->
                      [distance |-> route.legs[i].distance,
                       duration |-> route.legs[i].duration]],
     overview |-> [summary |-> route.summary]]

NoRouteData == [totalDistance |-> 0, totalDuration |-> 0, segments |-> <<>>,
                overview |-> [summary |-> ""]]

\* a calculateRoute that answers an OK response without routes with an empty
\* route instead of throwing
CalculateRoute_EmptyAccepted(response) ==
    IF response.status # "OK" THEN [ok |-> FALSE, data |-> NoRouteData]
    ELSE IF response.routes = <<>> THEN [ok |-> TRUE, data |-> NoRouteData]
    ELSE [ok |-> TRUE, data |-> ParseDirectionsResponse(response.routes[1])]

\* calculateRoute: a status other than OK throws (line 353), and so does a
\* response without routes (routes[0] is undefined at line 408, the TypeError
\* is caught and rethrown at lines 358-361)
CalculateRoute(response) ==
    IF response.status # "OK" THEN [ok |-> FALSE, data |-> NoRouteData]
    ELSE IF response.routes = <<>> THEN [ok |-> FALSE, data |-> NoRouteData]
    ELSE [ok |-> TRUE, data |-> ParseDirectionsResponse(response.routes[1])]

\* the order of Object.entries(routeData): the insertion order of
\* calculateAllRouteTypes
TypeOrder == <<"shortest", "recommended", "scenic">>

\* a scenic entry spread from the optimized route
RouteDataOf_ScenicFromShortest(type, shortestRoute, recommendedRoute) ==
    IF type = "recommended" THEN recommendedRoute ELSE shortestRoute

\* calculateAllRouteTypes: scenic spreads the recommended route
RouteDataOf(type, shortestRoute, recommendedRoute) ==
    IF type = "shortest" THEN shortestRoute ELSE recommendedRoute

(***************************************************************************)
(* Attraction enrichment (findAttractionsAlongRoute, lines 303-342).       *)
(***************************************************************************)
SliceLimit == 5
DetourTime == 1800

\* nearby.slice(0, 5)
Slice(s, n) == IF Len(s) <= n THEN s ELSE SubSeq(s, 1, n)

\* the object pushed at lines 317-328
Attraction(place) ==
    [placeId |-> place.id,
     name |-> place.name,
     rating |-> place.rating,
     distanceFromRoute |-> 0,
     detourTime |-> DetourTime]

\* a deduplication that returns the list as pushed
UniqueAttractions_AsPushed(attractions) == attractions

\* Array.from(new Map(attractions.map(a => [a.placeId, a])).values()):
\* a Map keeps a key at the position of its first insertion and the value of
\* its last one
UniqueAttractions(attractions) ==
    LET n == Len(attractions)
        IsFirst(i) == \A j \in 1..(i - 1) : attractions[j].placeId # attractions[i].placeId
        IsLast(i) == \A j \in (i + 1)..n : attractions[j].placeId # attractions[i].placeId
        firsts == SelectSeq([i \in 1..n |-> i], IsFirst)
        LastOf(i) == CHOOSE j \in i..n :
                        attractions[j].placeId = attractions[i].placeId /\ IsLast(j)
    IN  [k \in 1..Len(firsts) |-> attractions[LastOf(firsts[k])]]

\* the state of one run of findAttractionsAlongRoute: the attractions pushed
\* so far, the waypoint whose lookup is awaited, and the returned list
EnrichStart ==
    [attractions |-> <<>>, next |-> 1, status |-> "running", result |-> <<>>]

\* a findAttractionsAlongRoute whose catch rethrows
EnrichStep_Rethrows(en, n, response) ==
    IF ~response.ok
    THEN [en EXCEPT !.status = "thrown", !.result = <<>>]
    ELSE LET nearby == Slice(response.places, SliceLimit)
             pushed == en.attractions \o [i \in 1..Len(nearby) |-> Attraction(nearby[i])]
         IN  IF en.next < n
             THEN [en EXCEPT !.attractions = pushed, !.next = en.next + 1]
             ELSE [attractions |-> pushed, next |-> en.next + 1,
                   status |-> "returned", result |-> UniqueAttractions(pushed)]

\* one resumption after an awaited searchNearby for waypoint en.next of n: a
\* rejection leaves the loop through the catch of lines 338-341, a result is
\* sliced and pushed, and after the last waypoint the list is deduplicated
EnrichStep(en, n, response) ==
    IF ~response.ok
    THEN [en EXCEPT !.status = "returned", !.result = <<>>]
    ELSE LET nearby == Slice(response.places, SliceLimit)
             pushed == en.attractions \o [i \in 1..Len(nearby) |-> Attraction(nearby[i])]
         IN  IF en.next < n
             THEN [en EXCEPT !.attractions = pushed, !.next = en.next + 1]
             ELSE [attractions |-> pushed, next |-> en.next + 1,
                   status |-> "returned", result |-> UniqueAttractions(pushed)]

(***************************************************************************)
(* JavaScript numbers in arithmetic: IEEE 754 binary64.  A non-negative    *)
(* double is [m, e]: m is the significand as a sequence of bits, most      *)
(* significant first, without leading or trailing zeros (at most 53 bits), *)
(* and the value is m * 2^e; zero has the empty significand.               *)
(***************************************************************************)
Precision == 53

Zeros(n) == [i \in 1..n |-> 0]

RECURSIVE Bits(_)
Bits(n) == IF n = 0 THEN <<>> ELSE Append(Bits(n \div 2), n % 2)

\* the value of a bit sequence (of at most 31 significant bits)
RECURSIVE ToInt(_)
ToInt(bits) ==
    IF bits = <<>> THEN 0
    ELSE IF Len(bits) = 1 THEN bits[1]
    ELSE LET h == Len(bits) \div 2
         IN  ToInt(SubSeq(bits, 1, h)) * 2 ^ (Len(bits) - h)
               + ToInt(SubSeq(bits, h + 1, Len(bits)))

StripLeading(bits) ==
    LET ones == {i \in 1..Len(bits) : bits[i] = 1}
    IN  IF ones = {} THEN <<>>
        ELSE SubSeq(bits, CHOOSE i \in ones : \A j \in ones : i <= j, Len(bits))

\* the double of value bits * 2^e, for bits that fit the significand
Canon(bits, e) ==
    LET ones == {i \in 1..Len(bits) : bits[i] = 1}
        first == CHOOSE i \in ones : \A j \in ones : i <= j
        last == CHOOSE i \in ones : \A j \in ones : j <= i
    IN  IF ones = {} THEN [m |-> <<>>, e |-> 0]
        ELSE [m |-> SubSeq(bits, first, last), e |-> e + Len(bits) - last]

Reverse(s) == [i \in 1..Len(s) |-> s[Len(s) + 1 - i]]

\* a + b + carry for bit sequences of one length, least significant bit
\* first: the sum bits of that length and the carry out
RECURSIVE AddCarry(_, _, _)
AddCarry(a, b, carry) ==
    IF a = <<>> THEN [bits |-> <<>>, carry |-> carry]
    ELSE IF Len(a) = 1
    THEN [bits |-> <<(a[1] + b[1] + carry) % 2>>, carry |-> (a[1] + b[1] + carry) \div 2]
    ELSE LET h == Len(a) \div 2
             low == AddCarry(SubSeq(a, 1, h), SubSeq(b, 1, h), carry)
             high == AddCarry(SubSeq(a, h + 1, Len(a)), SubSeq(b, h + 1, Len(b)), low.carry)
         IN  [bits |-> low.bits \o high.bits, carry |-> high.carry]

\* a + b for bit sequences, most significant bit first
AddBits(a, b) ==
    LET n == IF Len(a) >= Len(b) THEN Len(a) ELSE Len(b)
        sum == AddCarry(Reverse(Zeros(n - Len(a)) \o a), Reverse(Zeros(n - Len(b)) \o b), 0)
    IN  <<sum.carry>> \o Reverse(sum.bits)

\* a * k + carry for a bit sequence a, least significant bit first, and
\* small naturals k, carry: the low Len(a) bits and the carry out
RECURSIVE MulCarry(_, _, _)
MulCarry(a, k, carry) ==
    IF a = <<>> THEN [bits |-> <<>>, carry |-> carry]
    ELSE IF Len(a) = 1
    THEN [bits |-> <<(a[1] * k + carry) % 2>>, carry |-> (a[1] * k + carry) \div 2]
    ELSE LET h == Len(a) \div 2
             low == MulCarry(SubSeq(a, 1, h), k, carry)
             high == MulCarry(SubSeq(a, h + 1, Len(a)), k, low.carry)
         IN  [bits |-> low.bits \o high.bits, carry |-> high.carry]

\* a * k for a bit sequence a, most significant bit first
MulBits(a, k) ==
    LET p == MulCarry(Reverse(a), k, 0)
    IN  Bits(p.carry) \o Reverse(p.bits)

\* long division of a bit sequence by a small natural d, entered with the
\* remainder r: the quotient bits and the remainder left
RECURSIVE LongDiv(_, _, _)
LongDiv(a, d, r) ==
    IF a = <<>> THEN [q |-> <<>>, r |-> r]
    ELSE IF Len(a) = 1 THEN [q |-> <<(2 * r + a[1]) \div d>>, r |-> (2 * r + a[1]) % d]
    ELSE LET h == Len(a) \div 2
             high == LongDiv(SubSeq(a, 1, h), d, r)
             low == LongDiv(SubSeq(a, h + 1, Len(a)), d, high.r)
         IN  [q |-> high.q \o low.q, r |-> low.r]

\* round-to-nearest, ties-to-even, of bits * 2^e (plus a non-zero remainder
\* below the last bit when sticky) to a significand of Precision bits
RoundBits(bits, e, sticky) ==
    LET b == StripLeading(bits)
        n == Len(b)
    IN  IF n <= Precision THEN Canon(b, e)
        ELSE LET kept == SubSeq(b, 1, Precision)
                 guard == b[Precision + 1]
                 rest == sticky \/ \E i \in (Precision + 2)..n : b[i] = 1
                 up == guard = 1 /\ (rest \/ kept[Precision] = 1)
             IN  Canon(IF up THEN AddBits(kept, <<1>>) ELSE kept, e + n - Precision)

FromInt(n) == Canon(Bits(n), 0)

\* x / d for a double x and a natural d: the exact quotient carried to more
\* bits than the significand holds, then rounded
GuardBits == 80
DivBy(x, d) ==
    IF x.m = <<>> THEN x
    ELSE LET p == LongDiv(x.m \o Zeros(GuardBits), d, 0)
         IN  RoundBits(p.q, x.e - GuardBits, p.r # 0)

\* x * k for a double x and a natural k
MulBy(x, k) == RoundBits(MulBits(x.m, k), x.e, FALSE)

\* x + n for a double x and a natural n
AddNat(x, n) ==
    IF n = 0 THEN x
    ELSE IF x.m = <<>> THEN FromInt(n)
    ELSE IF x.e >= 0 THEN RoundBits(AddBits(x.m \o Zeros(x.e), Bits(n)), 0, FALSE)
    ELSE RoundBits(AddBits(x.m, Bits(n) \o Zeros(-x.e)), x.e, FALSE)

\* a * b for bit sequences: b is taken LimbBits bits at a time
LimbBits == 15
RECURSIVE MulSeq(_, _)
MulSeq(a, b) ==
    IF Len(b) <= LimbBits THEN MulBits(a, ToInt(b))
    ELSE AddBits(MulSeq(a, SubSeq(b, 1, Len(b) - LimbBits)) \o Zeros(LimbBits),
                 MulBits(a, ToInt(SubSeq(b, Len(b) - LimbBits + 1, Len(b)))))

\* x * y for doubles
Mul(x, y) ==
    IF x.m = <<>> \/ y.m = <<>> THEN FromInt(0)
    ELSE RoundBits(MulSeq(x.m, y.m), x.e + y.e, FALSE)

\* x + y for doubles
Add(x, y) ==
    IF x.m = <<>> THEN y
    ELSE IF y.m = <<>> THEN x
    ELSE LET e == IF x.e <= y.e THEN x.e ELSE y.e
         IN  RoundBits(AddBits(x.m \o Zeros(x.e - e), y.m \o Zeros(y.e - e)), e, FALSE)

\* a decimal literal n / 10^k of the source, as the double it denotes
Decimal(n, tenPower) == DivBy(FromInt(n), tenPower)

\* Math.floor(x)
MathFloor(x) ==
    IF x.m = <<>> THEN 0
    ELSE IF x.e >= 0 THEN ToInt(x.m \o Zeros(x.e))
    ELSE LET k == Len(x.m) + x.e
         IN  IF k <= 0 THEN 0 ELSE ToInt(SubSeq(x.m, 1, k))

\* Math.ceil(x) for x >= 0: a canonical double with a negative exponent has
\* a fraction
MathCeil(x) ==
    IF x.m = <<>> THEN 0
    ELSE IF x.e >= 0 THEN ToInt(x.m \o Zeros(x.e))
    ELSE LET k == Len(x.m) + x.e
         IN  IF k <= 0 THEN 1 ELSE ToInt(SubSeq(x.m, 1, k)) + 1

\* Math.round(x): the integer nearest to x, a half rounding up
MathRound(x) ==
    IF x.m = <<>> THEN 0
    ELSE IF x.e >= 0 THEN ToInt(x.m \o Zeros(x.e))
    ELSE LET k == Len(x.m) + x.e
         IN  IF k < 0 THEN 0
             ELSE (IF k = 0 THEN 0 ELSE ToInt(SubSeq(x.m, 1, k))) + x.m[k + 1]

(***************************************************************************)
(* Cost estimate (estimateRouteCosts, route.controller.js lines 347-373).  *)
(***************************************************************************)
TransportModes == {"public", "private", "rental", "mixed"}
\* preferences, or preferences.transportation, is undefined
NoPreference == "absent"

\* the costPerKm table of lines 351-356
CostPerKm(mode) == 300

TollUnit == 500
TollBracketKm == 100
Parking == 200
MetersPerKm == 1000

\* an estimate whose fuel component is cut down to a whole number
EstimateRouteCosts_FuelFloored(distanceMeters, transportation) ==
    LET distanceKm == DivBy(FromInt(distanceMeters), MetersPerKm)
        transportationType == IF transportation = NoPreference THEN "mixed"
                              ELSE transportation
        fuelCost == MulBy(distanceKm, CostPerKm(transportationType))
        tolls == MathFloor(DivBy(distanceKm, TollBracketKm)) * TollUnit
        parking == Parking
    IN  [fuel |-> MathFloor(fuelCost),
         tolls |-> tolls,
         parking |-> parking,
         total |-> MathRound(AddNat(AddNat(fuelCost, tolls), parking))]

\* estimateRouteCosts: distanceMeters / 1000, distanceKm * costPerKm[type],
\* Math.floor(distanceKm / 100) * 500, and Math.round of the fuel cost and of
\* the sum fuelCost + tolls + parking, each in double arithmetic
EstimateRouteCosts(distanceMeters, transportation) ==
    LET distanceKm == DivBy(FromInt(distanceMeters), MetersPerKm)
        transportationType == IF transportation = NoPreference THEN "mixed"
                              ELSE transportation
        fuelCost == MulBy(distanceKm, CostPerKm(transportationType))
        tolls == MathFloor(DivBy(distanceKm, TollBracketKm)) * TollUnit
        parking == Parking
    IN  [fuel |-> MathRound(fuelCost),
         tolls |-> tolls,
         parking |-> parking,
         total |-> MathRound(AddNat(AddNat(fuelCost, tolls), parking))]

(***************************************************************************)
(* Route score (routeSchema.methods.calculateScore, models/Itinerary.js    *)
(* lines 273-296), computed on the Route document before it is saved.      *)
(***************************************************************************)
RECURSIVE SumRatings(_)
SumRatings(attractions) ==
    IF attractions = <<>> THEN 0
    ELSE Head(attractions).rating + SumRatings(Tail(attractions))

\* calculateScore on a Route document: this.routeType, this.totalDistance,
\* this.totalDuration and this.attractionsAlongRoute are the fields read
CalculateScore(route) ==
    CASE route.routeType = "shortest" ->
            DivBy(FromInt(1000000), route.totalDistance + 1)
      [] route.routeType = "recommended" ->
            LET distanceScore == DivBy(FromInt(500000), route.totalDistance + 1)
                durationScore == DivBy(FromInt(500000), route.totalDuration + 1)
                attractionScore == FromInt(Len(route.attractionsAlongRoute) * 100)
            IN  Add(Add(Mul(distanceScore, Decimal(3, 10)),
                        Mul(durationScore, Decimal(3, 10))),
                    Mul(attractionScore, Decimal(4, 10)))
      [] route.routeType = "scenic" ->
            LET attractionCount == Len(route.attractionsAlongRoute)
                avgRating == DivBy(FromInt(SumRatings(route.attractionsAlongRoute)),
                                   IF attractionCount = 0 THEN 1 ELSE attractionCount)
            IN  Add(FromInt(attractionCount * 200), MulBy(avgRating, 100))
      [] OTHER -> FromInt(0)

(***************************************************************************)
(* Completion percentage (calculateCompletionPercentage, lines 162-189 of  *)
(* the itinerary schema).  A field of the document is Undefined or its     *)
(* value in a one-element sequence; selectedRoute is a string.             *)
(***************************************************************************)
\* a string in a condition: present and not empty
StringTruthy(x) == x # Undefined /\ x[1] # ""
\* a Date, an object or an array in a condition: present
ObjectTruthy(x) == x # Undefined

TotalSteps == 7

\* the conditions of lines 168-184, in the order of the code
Units(doc) ==
    << StringTruthy(doc.tripName),
       ObjectTruthy(doc.startDate),
       ObjectTruthy(doc.endDate),
       ObjectTruthy(doc.startLocation) /\ ObjectTruthy(doc.endLocation),
       Len(doc.dayPlans) > 0,
       \E i \in 1..Len(doc.dayPlans) : Len(doc.dayPlans[i].places) > 0,
       doc.selectedRoute # "none" >>

CompletedSteps(doc) == Cardinality({i \in 1..TotalSteps : Units(doc)[i]})

\* the percentage cut down instead of rounded
CalculateCompletionPercentage_Floored(doc) ==
    MathFloor(MulBy(DivBy(FromInt(CompletedSteps(doc)), TotalSteps), 100))

\* Math.round((completedSteps / totalSteps) * 100)
CalculateCompletionPercentage(doc) ==
    MathRound(MulBy(DivBy(FromInt(CompletedSteps(doc)), TotalSteps), 100))

\* a score taken before the attractions are attached to the document
StoredScore_BeforeAttractions(route) ==
    CalculateScore([route EXCEPT !.attractionsAlongRoute = <<>>])

\* route.calculateScore() of route.controller.js line 148, on the document
\* built at lines 130-144
StoredScore(route) == CalculateScore(route)

(***************************************************************************)
(* The store and the requests in flight.                                   *)
(***************************************************************************)
VARIABLES
    itineraries,   \* Itinerary collection: identifier -> document
    routes,        \* Route collection: a set of documents
    pc,            \* per calculateRoutes request: the await it is suspended at
    rq,            \* per calculateRoutes request: its locals and its response
    ops,           \* updateItinerary / deleteItinerary requests served so far
    wpIn,          \* waypoint extraction alone: the itinerary given
    wpOut,         \* waypoint extraction alone: the waypoint list built
    enIn,          \* enrichment alone: the provider's answer per waypoint
    en,            \* enrichment alone: the run of findAttractionsAlongRoute
    costIn,        \* cost estimate alone: the distance and the preference
    costOut,       \* cost estimate alone: the breakdown returned
    scIn,          \* route documents alone: the provider answers of the runs
    scOut,         \* route documents alone: the routes persisted, per run
    cpIn,          \* completion alone: the itinerary document
    cpOut,         \* completion alone: the percentage returned
    trIn,          \* my trips alone: the caller, the clock and the stored itineraries
    trOut,         \* my trips alone: the position in getMyTrips and its lists
    bkIn,          \* completed trip alone: the request of storeCompletedTrip
    bk,            \* completed trip alone: its position, results and stored document
    views          \* the answers of the two trip classifiers, in the order given

vars == <<itineraries, routes, pc, rq, ops, wpIn, wpOut, enIn, en, costIn, costOut,
         scIn, scOut, cpIn, cpOut, trIn, trOut,
         bkIn, bk, views>>
storeVars == <<itineraries, routes, pc, rq, ops>>
wpVars == <<wpIn, wpOut>>
enVars == <<enIn, en>>
costVars == <<costIn, costOut>>
scVars == <<scIn, scOut>>
cpVars == <<cpIn, cpOut>>
trVars == <<trIn, trOut>>
bkVars == <<bkIn, bk>>
lfVars == <<views>>
pureVars == <<costVars, scVars, cpVars, trVars, bkVars, lfVars>>

Reqs == 1..MaxReq
ItinIds == {"it1", "it2"}
UserIds == {"u1", "u2"}
NoSelectedRoute == "none"

StartLocation == [name |-> "Colombo", placeId |-> "start", latitude |-> Num(6), longitude |-> Num(79)]
EndLocation == [name |-> "Kandy", placeId |-> "end", latitude |-> Num(7), longitude |-> Num(80)]

\* a place of a day plan (placeSchema)
Place(id, lat, lng) ==
    [placeId |-> id, name |-> id, location |-> <<[latitude |-> lat, longitude |-> lng]>>]

\* an entry of the destinations field; duration is one of the fields the
\* projection of lines 79-84 drops
Destination(id, lat, lng) ==
    [placeId |-> id, name |-> id, latitude |-> lat, longitude |-> lng, duration |-> 1]

Sigiriya == Place("sigiriya", Num(8), Num(81))

\* the day plans an itinerary of the store can hold: the empty day created by
\* createItinerary, and days filled in by updateItinerary
StoredDayPlans ==
    { <<[dayNumber |-> 1, places |-> <<>>]>>,
      <<[dayNumber |-> 1, places |-> <<Sigiriya>>]>> }

NewItinerary(userId, dayPlans) ==
    [userId |-> userId,
     startLocation |-> StartLocation,
     endLocation |-> EndLocation,
     destinations |-> <<>>,
     dayPlans |-> dayPlans,
     selectedRoute |-> NoSelectedRoute]

\* what the routing provider can answer for a request of n waypoints: an
\* error status, OK without routes, or OK with one route of n - 1 legs; the
\* order it finds with optimize:true has the shorter legs
OptimizedLeg == [distance |-> 50000, duration |-> 3600]
InputOrderLeg == [distance |-> 120000, duration |-> 9000]
DirectionsResponses(n, optimize) ==
    { [status |-> "REQUEST_DENIED", routes |-> <<>>],
      [status |-> "OK", routes |-> <<>>],
      [status |-> "OK",
       routes |-> <<[legs |-> [i \in 1..(n - 1) |->
                                  IF optimize THEN OptimizedLeg ELSE InputOrderLeg],
                     summary |-> "A1"]>>] }

\* what the places provider can answer for one waypoint
Temple == [id |-> "temple", name |-> "Temple", rating |-> 4]
Garden == [id |-> "garden", name |-> "Garden", rating |-> 5]
NearbyResponses ==
    { [ok |-> FALSE, places |-> <<>>],
      [ok |-> TRUE, places |-> <<>>],
      [ok |-> TRUE, places |-> <<Temple>>] }

RoutesOf(rs, itineraryId) == {r \in rs : r.itineraryId = itineraryId}

\* a deleteMany whose filter matches no document
DeleteMany_MatchesNothing(rs, itineraryId) == rs

\* Route.deleteMany({ itineraryId })
DeleteMany(rs, itineraryId) == rs \ RoutesOf(rs, itineraryId)

\* new Route({...}) of lines 130-144; the identifier is unique per request
\* and type
NewRoute(p, itineraryId, type, data, waypoints, attractions) ==
    [id |-> <<p, type>>,
     itineraryId |-> itineraryId,
     routeType |-> type,
     totalDistance |-> data.totalDistance,
     totalDuration |-> data.totalDuration,
     waypoints |-> RouteWaypoints(waypoints),
     segments |-> data.segments,
     overview |-> data.overview,
     attractionsAlongRoute |-> attractions]

\* the update that writes nothing
FindByIdAndUpdate_Unselected(its, itineraryId, selected) == its

\* Itinerary.findByIdAndUpdate(id, { selectedRoute }): no document, no change
FindByIdAndUpdate(its, itineraryId, selected) ==
    IF itineraryId \in DOMAIN its
    THEN [its EXCEPT ![itineraryId].selectedRoute = selected]
    ELSE its

SelectedRouteOf(its, itineraryId) ==
    IF itineraryId \in DOMAIN its THEN its[itineraryId].selectedRoute ELSE NoSelectedRoute

IdleRequest ==
    [itineraryId |-> "it1",
     waypoints |-> <<>>,
     shortest |-> NoRouteData,
     recommended |-> NoRouteData,
     idx |-> 1,
     en |-> EnrichStart,
     status |-> 0,            \* HTTP status of the response, 0 while running
     saved |-> {},            \* identifiers of the routes this request saved
     \* bookkeeping of the run, not part of the program
     pre |-> {},              \* the itinerary's routes when the request began
     preSelected |-> NoSelectedRoute,
     alone |-> TRUE,          \* no other request touched the itinerary since
     directions |-> <<>>,     \* the optimize flag of each routing call made
     routingFailed |-> FALSE, \* a routing call was answered with a failure
     placesFailed |-> FALSE,  \* a places lookup was answered with a failure
     storeFailed |-> FALSE]   \* a store write was rejected

\* a step on an itinerary ends the solitude of every other request that has
\* begun on it
Touched(r, p, itineraryId) ==
    [q \in Reqs |->
        IF q # p /\ pc[q] # "idle" /\ r[q].itineraryId = itineraryId
        THEN [r[q] EXCEPT !.alone = FALSE]
        ELSE r[q]]

\* the catch of lines 182-191
Fail(r) == [r EXCEPT !.status = 500]

(***************************************************************************)
(* calculateRoutes, one action per resumption after an await.              *)
(***************************************************************************)
\* a handler that clears the routes of the identifier before it looks the
\* itinerary up
CR_FindById_DeletesFirst(p, itineraryId) ==
    /\ pc[p] = "idle"
    /\ \A q \in Reqs : q < p => pc[q] # "idle"
    /\ routes' = DeleteMany(routes, itineraryId)
    /\ IF itineraryId \notin DOMAIN itineraries
       THEN /\ pc' = [pc EXCEPT ![p] = "done"]
            /\ rq' = Touched([rq EXCEPT ![p] = [@ EXCEPT !.itineraryId = itineraryId,
                                                        !.status = 404]],
                             p, itineraryId)
       ELSE /\ pc' = [pc EXCEPT ![p] = "shortest"]
            /\ rq' = Touched([rq EXCEPT ![p] =
                                [@ EXCEPT !.itineraryId = itineraryId,
                                          !.waypoints = BuildWaypoints(itineraries[itineraryId]),
                                          !.pre = RoutesOf(routes, itineraryId),
                                          !.preSelected = itineraries[itineraryId].selectedRoute]],
                             p, itineraryId)
    /\ UNCHANGED <<itineraries, ops, wpVars, enVars, pureVars>>

\* lines 14-100: findById, the 404 answer, the waypoint list
CR_FindById(p, itineraryId) ==
    /\ pc[p] = "idle"
    /\ \A q \in Reqs : q < p => pc[q] # "idle"
    /\ IF itineraryId \notin DOMAIN itineraries
       THEN /\ pc' = [pc EXCEPT ![p] = "done"]
            /\ rq' = Touched([rq EXCEPT ![p] = [@ EXCEPT !.itineraryId = itineraryId,
                                                        !.status = 404]],
                             p, itineraryId)
       ELSE /\ pc' = [pc EXCEPT ![p] = "shortest"]
            /\ rq' = Touched([rq EXCEPT ![p] =
                                [@ EXCEPT !.itineraryId = itineraryId,
                                          !.waypoints = BuildWaypoints(itineraries[itineraryId]),
                                          !.pre = RoutesOf(routes, itineraryId),
                                          !.preSelected = itineraries[itineraryId].selectedRoute]],
                             p, itineraryId)
    /\ UNCHANGED <<itineraries, routes, ops, wpVars, enVars, pureVars>>

\* calculateAllRouteTypes, first call: calculateRoute(waypoints, 'driving', true)
CR_CalculateShortest(p) ==
    /\ pc[p] = "shortest"
    /\ \E response \in DirectionsResponses(Len(rq[p].waypoints), TRUE) :
          LET r == CalculateRoute(response)
              refused == response.status # "OK" \/ Len(response.routes) = 0
          IN  IF r.ok
              THEN /\ pc' = [pc EXCEPT ![p] = "recommended"]
                   /\ rq' = Touched([rq EXCEPT ![p] = [@ EXCEPT !.shortest = r.data,
                                                               !.directions = Append(@, TRUE),
                                                               !.routingFailed = refused]],
                                    p, rq[p].itineraryId)
              ELSE /\ pc' = [pc EXCEPT ![p] = "done"]
                   /\ rq' = Touched([rq EXCEPT ![p] = Fail([@ EXCEPT !.directions = Append(@, TRUE),
                                                                    !.routingFailed = refused])],
                                    p, rq[p].itineraryId)
    /\ UNCHANGED <<itineraries, routes, ops, wpVars, enVars, pureVars>>

\* calculateAllRouteTypes, second call: calculateRoute(waypoints, 'driving', false)
CR_CalculateRecommended(p) ==
    /\ pc[p] = "recommended"
    /\ \E response \in DirectionsResponses(Len(rq[p].waypoints), FALSE) :
          LET r == CalculateRoute(response)
              refused == response.status # "OK" \/ Len(response.routes) = 0
          IN  IF r.ok
              THEN /\ pc' = [pc EXCEPT ![p] = "delete"]
                   /\ rq' = Touched([rq EXCEPT ![p] = [@ EXCEPT !.recommended = r.data,
                                                               !.directions = Append(@, FALSE),
                                                               !.routingFailed = refused]],
                                    p, rq[p].itineraryId)
              ELSE /\ pc' = [pc EXCEPT ![p] = "done"]
                   /\ rq' = Touched([rq EXCEPT ![p] = Fail([@ EXCEPT !.directions = Append(@, FALSE),
                                                                    !.routingFailed = refused])],
                                    p, rq[p].itineraryId)
    /\ UNCHANGED <<itineraries, routes, ops, wpVars, enVars, pureVars>>

\* lines 104-107: Route.deleteMany({ itineraryId }); a rejected write throws
CR_DeleteMany(p) ==
    /\ pc[p] = "delete"
    /\ \E accepted \in BOOLEAN :
          IF accepted
          THEN /\ routes' = DeleteMany(routes, rq[p].itineraryId)
               /\ pc' = [pc EXCEPT ![p] = "save"]
               /\ rq' = Touched([rq EXCEPT ![p].idx = 1], p, rq[p].itineraryId)
          ELSE /\ routes' = routes
               /\ pc' = [pc EXCEPT ![p] = "done"]
               /\ rq' = Touched([rq EXCEPT ![p] = Fail([@ EXCEPT !.storeFailed = TRUE])],
                                p, rq[p].itineraryId)
    /\ UNCHANGED <<itineraries, ops, wpVars, enVars, pureVars>>

\* a loop that goes on to the selectedRoute write after its first route
AfterSave_SelectsEarly(idx) == "select"

\* where the loop of lines 113-156 suspends next, after the route of
\* TypeOrder[idx] is saved: the scenic route awaits the enrichment first
AfterSave(idx) ==
    IF idx = Len(TypeOrder) THEN "select"
    ELSE IF TypeOrder[idx + 1] = "scenic" THEN "enrich"
    ELSE "save"

\* lines 126-155: build the Route of the current type and save it
CR_SaveRoute(p) ==
    /\ pc[p] = "save"
    /\ LET type == TypeOrder[rq[p].idx]
           data == RouteDataOf(type, rq[p].shortest, rq[p].recommended)
           attractions == IF type = "scenic" THEN rq[p].en.result ELSE <<>>
           route == NewRoute(p, rq[p].itineraryId, type, data, rq[p].waypoints, attractions)
       IN  \E accepted \in BOOLEAN :
              IF accepted
              THEN /\ routes' = routes \cup {route}
                   /\ pc' = [pc EXCEPT ![p] = AfterSave(rq[p].idx)]
                   /\ rq' = Touched([rq EXCEPT ![p] =
                                       [@ EXCEPT !.saved = @ \cup {route.id},
                                                 !.idx = @ + 1]],
                                    p, rq[p].itineraryId)
              ELSE /\ routes' = routes
                   /\ pc' = [pc EXCEPT ![p] = "done"]
                   /\ rq' = Touched([rq EXCEPT ![p] = Fail([@ EXCEPT !.storeFailed = TRUE])],
                                    p, rq[p].itineraryId)
    /\ UNCHANGED <<itineraries, ops, wpVars, enVars, pureVars>>

\* lines 118-124 with findAttractionsAlongRoute: the lookup of one waypoint
\* is answered; an exception leaving findAttractionsAlongRoute would reach
\* the catch of calculateRoutes
CR_SearchNearby(p) ==
    /\ pc[p] = "enrich"
    /\ \E response \in NearbyResponses :
          LET next == EnrichStep(rq[p].en, Len(rq[p].waypoints), response)
              failed == rq[p].placesFailed \/ ~response.ok
          IN  /\ pc' = [pc EXCEPT ![p] = CASE next.status = "running" -> "enrich"
                                           [] next.status = "returned" -> "save"
                                           [] OTHER -> "done"]
              /\ rq' = Touched([rq EXCEPT ![p] =
                                  IF next.status \in {"running", "returned"}
                                  THEN [@ EXCEPT !.en = next, !.placesFailed = failed]
                                  ELSE Fail([@ EXCEPT !.en = next, !.placesFailed = failed])],
                               p, rq[p].itineraryId)
    /\ UNCHANGED <<itineraries, routes, ops, wpVars, enVars, pureVars>>

\* lines 164-181: set selectedRoute and answer 200
CR_SelectRoute(p) ==
    /\ pc[p] = "select"
    /\ \E accepted \in BOOLEAN :
          IF accepted
          THEN /\ itineraries' = FindByIdAndUpdate(itineraries, rq[p].itineraryId, "recommended")
               /\ rq' = Touched([rq EXCEPT ![p].status = 200], p, rq[p].itineraryId)
          ELSE /\ itineraries' = itineraries
               /\ rq' = Touched([rq EXCEPT ![p] = Fail([@ EXCEPT !.storeFailed = TRUE])],
                                p, rq[p].itineraryId)
    /\ pc' = [pc EXCEPT ![p] = "done"]
    /\ UNCHANGED <<routes, ops, wpVars, enVars, pureVars>>

(***************************************************************************)
(* The itinerary handlers that share the store.                            *)
(***************************************************************************)
\* updateItinerary (service lines 264-275) with updates = { dayPlans }:
\* Object.assign and save; an unknown identifier throws and changes nothing
UpdateItinerary(itineraryId, dayPlans) ==
    /\ ops < MaxUpdates
    /\ ops' = ops + 1
    /\ itineraries' = IF itineraryId \in DOMAIN itineraries
                      THEN [itineraries EXCEPT ![itineraryId].dayPlans = dayPlans]
                      ELSE itineraries
    /\ rq' = Touched(rq, 0, itineraryId)
    /\ UNCHANGED <<routes, pc, wpVars, enVars, pureVars>>

\* deleteItinerary (service lines 305-313): findOneAndDelete({ _id, userId })
DeleteItinerary(itineraryId, userId) ==
    /\ ops < MaxUpdates
    /\ ops' = ops + 1
    /\ itineraries' = IF /\ itineraryId \in DOMAIN itineraries
                         /\ itineraries[itineraryId].userId = userId
                      THEN [i \in DOMAIN itineraries \ {itineraryId} |-> itineraries[i]]
                      ELSE itineraries
    /\ rq' = Touched(rq, 0, itineraryId)
    /\ UNCHANGED <<routes, pc, wpVars, enVars, pureVars>>

\* the store after start-up: one itinerary of user u1, no routes, no request
InitStore ==
    /\ \E dayPlans \in StoredDayPlans :
          itineraries = [i \in {"it1"} |-> NewItinerary("u1", dayPlans)]
    /\ routes = {}
    /\ pc = [p \in Reqs |-> "idle"]
    /\ rq = [p \in Reqs |-> IdleRequest]
    /\ ops = 0

NoExtraction == [done |-> FALSE, waypoints |-> <<>>]

WpIdle ==
    /\ wpIn = NewItinerary("u1", <<>>)
    /\ wpOut = NoExtraction

EnIdle ==
    /\ enIn = <<>>
    /\ en = EnrichStart

NoEstimate == [done |-> FALSE, costs |-> [fuel |-> 0, tolls |-> 0, parking |-> 0, total |-> 0]]

CostIdle ==
    /\ costIn = [distance |-> 0, transportation |-> NoPreference]
    /\ costOut = NoEstimate

ScIdle ==
    /\ scIn = [shortest |-> NoRouteData, recommended |-> NoRouteData,
               attractions |-> <<>>, transportation |-> NoPreference]
    /\ scOut = <<>>

NoPercentage == [done |-> FALSE, percentage |-> 0]

CpIdle ==
    /\ cpIn = [tripName |-> Undefined, startDate |-> Undefined, endDate |-> Undefined,
               startLocation |-> Undefined, endLocation |-> Undefined,
               dayPlans |-> <<>>, selectedRoute |-> NoSelectedRoute]
    /\ cpOut = NoPercentage

NoTrips ==
    [pc |-> "idle", status |-> 0, clock |-> 0, i |-> 1,
     savedPlans |-> <<>>, unfinishedTrips |-> <<>>, upcomingTrips |-> <<>>]

TrIdle ==
    /\ trIn = [user |-> Undefined, now |-> 0, itineraries |-> <<>>]
    /\ trOut = NoTrips

NoStoredTrip ==
    [pc |-> "idle", idx |-> 1, bookingResults |-> <<>>, status |-> 0,
     stored |-> Undefined, outcomes |-> <<>>, confirmed |-> {}]

BkIdle ==
    /\ bkIn = [user |-> Undefined, tripData |-> FALSE, planningBookings |-> Undefined]
    /\ bk = NoStoredTrip

LfIdle == views = <<>>

PureIdle == CostIdle /\ ScIdle /\ CpIdle /\ TrIdle /\ BkIdle /\ LfIdle

Init == InitStore /\ WpIdle /\ EnIdle /\ PureIdle

Next ==
    \/ \E p \in Reqs, i \in ItinIds : CR_FindById(p, i)
    \/ \E p \in Reqs : CR_CalculateShortest(p)
    \/ \E p \in Reqs : CR_CalculateRecommended(p)
    \/ \E p \in Reqs : CR_DeleteMany(p)
    \/ \E p \in Reqs : CR_SaveRoute(p)
    \/ \E p \in Reqs : CR_SearchNearby(p)
    \/ \E p \in Reqs : CR_SelectRoute(p)
    \/ \E i \in ItinIds, dayPlans \in StoredDayPlans : UpdateItinerary(i, dayPlans)
    \/ \E i \in ItinIds, u \in UserIds : DeleteItinerary(i, u)

Spec == Init /\ [][Next]_vars

\* C1: at most one Route per (itineraryId, routeType) in every state
C1_OnePerType ==
    \A r1, r2 \in routes :
        (r1.itineraryId = r2.itineraryId /\ r1.routeType = r2.routeType) => r1 = r2

RouteIds(p) == {<<p, TypeOrder[i]>> : i \in 1..Len(TypeOrder)}

\* C2: after a successful calculateRoutes that ran alone, the itinerary has
\* exactly three routes, one of each type, all created by that request, and
\* none of the routes it had before
C2_Replaced ==
    \A p \in Reqs :
        (pc[p] = "done" /\ rq[p].status = 200 /\ rq[p].alone) =>
            LET mine == RoutesOf(routes, rq[p].itineraryId)
            IN  /\ {r.id : r \in mine} = RouteIds(p)
                /\ Cardinality(mine) = 3
                /\ \A t \in {"shortest", "recommended", "scenic"} :
                      Cardinality({r \in mine : r.routeType = t}) = 1
                /\ mine \cap rq[p].pre = {}

\* a request succeeded alone on an itinerary that had a partial set of routes
C2_Witness ==
    \E p \in Reqs :
        /\ pc[p] = "done" /\ rq[p].status = 200 /\ rq[p].alone
        /\ Cardinality(rq[p].pre) \in {1, 2}

\* C3: a routing call answered with a non-OK status or without paths makes
\* calculateRoutes answer with an error, having saved nothing, and when the
\* request ran alone the itinerary's routes and selectedRoute are those it
\* had when the request began
C3_ProviderFailure ==
    \A p \in Reqs :
        rq[p].routingFailed =>
            /\ pc[p] = "done"
            /\ rq[p].status = 500
            /\ rq[p].saved = {}
            /\ rq[p].alone =>
                  /\ RoutesOf(routes, rq[p].itineraryId) = rq[p].pre
                  /\ SelectedRouteOf(itineraries, rq[p].itineraryId) = rq[p].preSelected

\* the routing provider failed a request on an itinerary that had routes
C3_Witness ==
    \E p \in Reqs :
        /\ rq[p].routingFailed /\ rq[p].alone
        /\ Cardinality(rq[p].pre) = 3
        /\ rq[p].preSelected = "recommended"

\* C4: no Route record has a waypoint list that differs from the waypoint
\* list of its itinerary's current day plans
C4_NoStaleRoute ==
    \A r \in routes :
        r.itineraryId \in DOMAIN itineraries =>
            r.waypoints = RouteWaypoints(BuildWaypoints(itineraries[r.itineraryId]))

\* C9: a failure of the places provider never leaves findAttractionsAlongRoute
\* as an exception, and the request it happened in still saves its three
\* routes and answers 200 (unless the store rejects a write)
C9_EnrichmentAbsorbed ==
    \A p \in Reqs :
        rq[p].placesFailed =>
            /\ rq[p].en.status = "returned"
            /\ (pc[p] = "done" /\ ~rq[p].storeFailed) =>
                  /\ rq[p].status = 200
                  /\ rq[p].saved = RouteIds(p)
                  /\ rq[p].alone => RouteIds(p) \subseteq {r.id : r \in routes}

\* a request whose enrichment met a provider failure has answered 200
C9_Witness ==
    \E p \in Reqs :
        /\ rq[p].placesFailed /\ pc[p] = "done" /\ rq[p].status = 200
        /\ RouteIds(p) \subseteq {r.id : r \in routes}

\* the sum of a field over the segments of a persisted route
RECURSIVE SegmentSum(_, _)
SegmentSum(segments, field) ==
    IF segments = <<>> THEN 0
    ELSE Head(segments)[field] + SegmentSum(Tail(segments), field)

\* C13: every persisted Route has totalDistance equal to the sum of its
\* segments' distance and totalDuration equal to the sum of its segments'
\* duration, whatever its type
C13_TotalsAreSegmentSums ==
    \A r \in routes :
        /\ r.totalDistance = SegmentSum(r.segments, "distance")
        /\ r.totalDuration = SegmentSum(r.segments, "duration")

\* one request has persisted a route of each type, each of two segments
C13_Witness ==
    \E p \in Reqs :
        \A t \in {"shortest", "recommended", "scenic"} :
            \E r \in routes :
                /\ r.id = <<p, t>>
                /\ Len(r.segments) = 2
                /\ r.totalDistance = 2 * r.segments[1].distance
                /\ r.totalDistance > 0

(***************************************************************************)
(* The waypoint extraction alone, over every itinerary within the bounds.  *)
(***************************************************************************)
Dambulla == Place("dambulla", Num(7), Num(81))
Equator == Place("equator", Num(0), Num(81))
Unlocated == Place("unlocated", Num(7), Undefined)
DayPlaces == {Sigiriya, Dambulla, Equator, Unlocated}

Galle == Destination("galle", Num(6), Num(80))
Ella == Destination("ella", Num(7), Num(81))
LegacyDestinations == {Galle, Ella}

\* the places flat[k] given to stored day d by a non-decreasing assignment
PlacesOfDay(flat, dayOf, d) ==
    LET idx == SelectSeq([k \in 1..Len(flat) |-> k], LAMBDA k : dayOf[k] = d)
    IN  [j \in 1..Len(idx) |-> flat[idx[j]]]

\* the legacy destinations lists given to the extractor
LegacyLists == { <<>>, <<Galle>>, <<Galle, Ella>>, <<Ella, Galle>> }

\* day plans of up to maxDays days stored in any order of their day numbers,
\* holding at most maxPlaces places in all
DayPlanLists(maxDays, maxPlaces) ==
    UNION { UNION { { [d \in 1..n |-> [dayNumber |-> order[d],
                                        places |-> PlacesOfDay(flat, dayOf, d)]]
                      : dayOf \in { f \in [1..Len(flat) -> 1..n] :
                                      \A k \in 1..(Len(flat) - 1) : f[k] <= f[k + 1] } }
                    : order \in Permutations(1..n), flat \in SeqsUpTo(DayPlaces, maxPlaces) }
            : n \in 0..maxDays }

ExtractorInputs(maxDays, maxPlaces) ==
    { [NewItinerary("u1", dayPlans) EXCEPT !.destinations = dests]
      : dayPlans \in DayPlanLists(maxDays, maxPlaces), dests \in LegacyLists }

StoreIdle ==
    /\ itineraries = [i \in {"it1"} |-> NewItinerary("u1", <<>>)]
    /\ routes = {}
    /\ pc = [p \in Reqs |-> "idle"]
    /\ rq = [p \in Reqs |-> IdleRequest]
    /\ ops = 0

InitWp ==
    /\ StoreIdle
    /\ EnIdle
    /\ PureIdle
    /\ wpIn \in ExtractorInputs(MaxDays, MaxPlaces)
    /\ wpOut = NoExtraction

\* lines 35-84 of calculateRoutes applied to the itinerary
WP_Extract ==
    /\ ~wpOut.done
    /\ wpOut' = [done |-> TRUE, waypoints |-> BuildWaypoints(wpIn)]
    /\ UNCHANGED <<wpIn, storeVars, enVars, pureVars>>

NextWp == WP_Extract

SpecWp == InitWp /\ [][NextWp]_vars

\* the waypoints between the start and the end location
Intermediates(waypoints) ==
    IF Len(waypoints) <= 2 THEN <<>> ELSE SubSeq(waypoints, 2, Len(waypoints) - 1)

\* the stored day whose dayNumber is k
DayNumbered(dayPlans, k) ==
    dayPlans[CHOOSE d \in 1..Len(dayPlans) : dayPlans[d].dayNumber = k]

\* C5: the intermediates taken from day plans are in ascending day-number
\* order, and within a day in the order of the day's places, however the
\* day plans are stored
C5_DayNumberOrder ==
    wpOut.done =>
        LET byNumber == Flatten([k \in 1..Len(wpIn.dayPlans) |->
                                    DayWaypoints(DayNumbered(wpIn.dayPlans, k))])
        IN  byNumber # <<>> =>
                wpOut.waypoints = <<ToWaypoint(wpIn.startLocation)>> \o byNumber
                                    \o <<ToWaypoint(wpIn.endLocation)>>

\* every place of the itinerary's day plans, in stored order
AllPlaces(itinerary) ==
    Flatten([d \in 1..Len(itinerary.dayPlans) |-> itinerary.dayPlans[d].places])

\* how many entries of a sequence satisfy a test
Count(seq, Test(_)) == Cardinality({i \in 1..Len(seq) : Test(seq[i])})

Numeric(x) == x # Undefined
NonZero(x) == x # Undefined /\ x[1] # 0

PlaceIds == {place.placeId : place \in DayPlaces}
DestinationIds == {dest.placeId : dest \in LegacyDestinations}

\* C6: the intermediates taken from day plans are exactly the places with a
\* numeric latitude and a numeric longitude, zero included: each such place
\* is kept, once per occurrence, and no place lacking a coordinate is
C6_NumericCoordinatesKept ==
    wpOut.done =>
        \A id \in PlaceIds :
            Count(Intermediates(wpOut.waypoints), LAMBDA w : w.placeId = id)
              = Count(AllPlaces(wpIn),
                      LAMBDA place : /\ place.placeId = id
                                     /\ place.location # Undefined
                                     /\ Numeric(place.location[1].latitude)
                                     /\ Numeric(place.location[1].longitude))

\* some day plan holds a place that passes the extractor's guard: both
\* coordinates present and not 0
HasLocatedPlace(itinerary) ==
    \E i \in 1..Len(AllPlaces(itinerary)) :
        LET place == AllPlaces(itinerary)[i]
        IN  /\ place.location # Undefined
            /\ NonZero(place.location[1].latitude)
            /\ NonZero(place.location[1].longitude)

TempleAgain == [id |-> "temple", name |-> "Temple of the Tooth", rating |-> 3]
Museum == [id |-> "museum", name |-> "Museum", rating |-> 4]
Park == [id |-> "park", name |-> "Park", rating |-> 3]
Lake == [id |-> "lake", name |-> "Lake", rating |-> 4]
Falls == [id |-> "falls", name |-> "Falls", rating |-> 5]

\* the answers of searchNearby for one waypoint: a rejection, or a list of
\* places (the last one longer than the slice of 5)
NearbyAnswers ==
    { [ok |-> FALSE, places |-> <<>>] }
    \cup { [ok |-> TRUE, places |-> places] :
             places \in { <<>>,
                          <<Temple>>,
                          <<Garden, TempleAgain>>,
                          <<Temple, TempleAgain>>,
                          <<Museum, Park, Lake, Falls, Garden, Temple>> } }

InitEn ==
    /\ StoreIdle
    /\ WpIdle
    /\ PureIdle
    /\ enIn \in UNION { [1..n -> NearbyAnswers] : n \in 2..MaxWps }
    /\ en = EnrichStart

\* the awaited searchNearby of waypoint en.next is answered
EN_SearchNearby ==
    /\ en.status = "running"
    /\ en' = EnrichStep(en, Len(enIn), enIn[en.next])
    /\ UNCHANGED <<enIn, storeVars, wpVars, pureVars>>

NextEn == EN_SearchNearby

SpecEn == InitEn /\ [][NextEn]_vars

\* the identifiers among the first SliceLimit places of an answer
SlicedIds(answer) ==
    {answer.places[i].id : i \in 1..(IF Len(answer.places) <= SliceLimit
                                     THEN Len(answer.places) ELSE SliceLimit)}

\* C8: when the provider fails for some waypoints, the other waypoints are
\* still looked up and the result holds the attractions of every waypoint
\* whose lookup succeeded
C8_PartialFailureTolerated ==
    (/\ en.status = "returned"
     /\ \E w \in 1..Len(enIn) : ~enIn[w].ok
     /\ \E w \in 1..Len(enIn) : enIn[w].ok /\ enIn[w].places # <<>>) =>
        /\ en.next = Len(enIn) + 1
        /\ \A w \in 1..Len(enIn) :
              enIn[w].ok =>
                  SlicedIds(enIn[w]) \subseteq {en.result[i].placeId : i \in 1..Len(en.result)}

\* C10: the returned attraction list holds no two entries with the same
\* place identifier
C10_NoDuplicateIds ==
    en.status = "returned" =>
        \A i, j \in 1..Len(en.result) :
            en.result[i].placeId = en.result[j].placeId => i = j

\* a run that pushed the same place for two different waypoints and once
\* more within one waypoint has returned a list of several attractions
C10_Witness ==
    /\ en.status = "returned"
    /\ Len(en.result) >= 2
    /\ Len(en.attractions) > Len(en.result)
    /\ \E v, w \in 1..Len(enIn) :
          /\ v # w
          /\ "temple" \in SlicedIds(enIn[v]) \cap SlicedIds(enIn[w])

(***************************************************************************)
(* estimateRouteCosts alone, over distances and transport preferences.     *)
(***************************************************************************)
\* the distances in metres given to the estimate: every one up to maxMeters,
\* and some around the toll brackets
CostDistances(maxMeters) ==
    (0..maxMeters) \cup {99999, 100000, 120000, 199999, 200000, 250005}

InitCost ==
    /\ StoreIdle
    /\ WpIdle
    /\ EnIdle
    /\ ScIdle
    /\ CpIdle
    /\ TrIdle
    /\ BkIdle
    /\ LfIdle
    /\ costIn \in [distance : CostDistances(MaxMeters),
                   transportation : TransportModes \cup {NoPreference}]
    /\ costOut = NoEstimate

\* estimateRouteCosts(data.totalDistance, itinerary.preferences), line 127
COST_Estimate ==
    /\ ~costOut.done
    /\ costOut' = [done |-> TRUE,
                   costs |-> EstimateRouteCosts(costIn.distance, costIn.transportation)]
    /\ UNCHANGED <<costIn, storeVars, wpVars, enVars, scVars, cpVars, trVars, bkVars, lfVars>>

NextCost == COST_Estimate

SpecCost == InitCost /\ [][NextCost]_vars

\* C11: the total of a cost breakdown is the sum of the fuel, tolls and
\* parking it returns, for every distance and every transport preference
C11_TotalIsSum ==
    costOut.done =>
        costOut.costs.total
          = costOut.costs.fuel + costOut.costs.tolls + costOut.costs.parking

\* the rate of the mode the estimate uses for a preference
RateOf(transportation) ==
    CostPerKm(IF transportation = NoPreference THEN "mixed" ELSE transportation)

\* C12 as stated: fuel is distanceKm x rate (in thousandths: fuel x 1000 is
\* metres x rate), tolls is floor(distanceKm / 100) x 500 and parking is 200
C12_FuelIsProduct ==
    costOut.done =>
        /\ costOut.costs.fuel * MetersPerKm = costIn.distance * RateOf(costIn.transportation)
        /\ costOut.costs.tolls = (costIn.distance \div (TollBracketKm * MetersPerKm)) * TollUnit
        /\ costOut.costs.parking = Parking

\* C12: fuel is distanceKm x rate rounded to a nearest whole number (the
\* mode defaulting to mixed), tolls is floor(distanceKm / 100) x 500 and
\* parking is 200; 120 km gives fuel 120 x rate and one toll unit
C12_FuelIsRoundedProduct ==
    costOut.done =>
        LET exact == costIn.distance * RateOf(costIn.transportation)
            diff == costOut.costs.fuel * MetersPerKm - exact
        IN  /\ diff <= MetersPerKm \div 2
            /\ -diff <= MetersPerKm \div 2
            /\ costOut.costs.tolls = (costIn.distance \div (TollBracketKm * MetersPerKm)) * TollUnit
            /\ costOut.costs.parking = Parking
            /\ costIn.distance = 120000 =>
                  /\ costOut.costs.fuel = 120 * RateOf(costIn.transportation)
                  /\ costOut.costs.tolls = TollUnit

\* the estimate for 120 km without a transport preference: 36000 of fuel
\* and one toll unit
C12_Witness ==
    /\ costOut.done
    /\ costIn = [distance |-> 120000, transportation |-> NoPreference]
    /\ costOut.costs = [fuel |-> 36000, tolls |-> 500, parking |-> 200, total |-> 36700]

(***************************************************************************)
(* The Route documents of lines 126-152 alone: the cost breakdown and the  *)
(* score put on each of the three routes, over runs of calculateRoutes     *)
(* that receive the same provider answers.                                 *)
(***************************************************************************)
\* a short leg, of a length whose cost does not round evenly
ShortHop == [distance |-> 205, duration |-> 60]

\* the routes the routing provider answers with, of n legs
ProviderRoutes(n, leg) ==
    { [legs |-> legs, summary |-> "A1"] : legs \in [1..n -> {leg, ShortHop}] }

\* the lists findAttractionsAlongRoute returns
AttractionLists ==
    { UniqueAttractions([i \in 1..Len(places) |-> Attraction(places[i])])
        : places \in { <<>>, <<Temple>>, <<Garden, TempleAgain>>,
                       <<Museum, Park, Lake, Falls, Garden>> } }

ScoreInputs(maxWps) ==
    UNION { [shortest : {ParseDirectionsResponse(r) : r \in ProviderRoutes(n, OptimizedLeg)},
             recommended : {ParseDirectionsResponse(r) : r \in ProviderRoutes(n, InputOrderLeg)},
             attractions : AttractionLists,
             transportation : {NoPreference}]
            : n \in 1..(maxWps - 1) }

InitSc ==
    /\ StoreIdle
    /\ WpIdle
    /\ EnIdle
    /\ CostIdle
    /\ CpIdle
    /\ TrIdle
    /\ BkIdle
    /\ LfIdle
    /\ scIn \in ScoreInputs(MaxWps)
    /\ scOut = <<>>

\* the document saved at line 152: the Route of lines 130-144 with the cost
\* breakdown of line 127 and the score of line 148
PersistedRoute(route, transportation) ==
    [id |-> route.id,
     itineraryId |-> route.itineraryId,
     routeType |-> route.routeType,
     totalDistance |-> route.totalDistance,
     totalDuration |-> route.totalDuration,
     waypoints |-> route.waypoints,
     segments |-> route.segments,
     overview |-> route.overview,
     attractionsAlongRoute |-> route.attractionsAlongRoute,
     estimatedCosts |-> EstimateRouteCosts(route.totalDistance, transportation),
     score |-> StoredScore(route)]

\* the loop of lines 113-156 of one run: the three routes, by type
SC_CalculateRoutes ==
    /\ Len(scOut) < MaxRuns
    /\ LET run == Len(scOut) + 1
           waypoints == <<ToWaypoint(StartLocation), ToWaypoint(EndLocation)>>
           Saved(type) ==
               PersistedRoute(
                   NewRoute(run, "it1", type,
                            RouteDataOf(type, scIn.shortest, scIn.recommended),
                            waypoints,
                            IF type = "scenic" THEN scIn.attractions ELSE <<>>),
                   scIn.transportation)
       IN  scOut' = Append(scOut, [type \in {"shortest", "recommended", "scenic"} |-> Saved(type)])
    /\ UNCHANGED <<scIn, storeVars, wpVars, enVars, costVars, cpVars, trVars, bkVars, lfVars>>

NextSc == SC_CalculateRoutes

SpecSc == InitSc /\ [][NextSc]_vars

RouteTypes == {"shortest", "recommended", "scenic"}

\* C14: the score stored on every persisted Route is the scoring function of
\* its type applied to the route's own persisted fields, and runs of
\* calculateRoutes that receive the same provider answers persist the same
\* score per route type
C14_ScoreFromPersistedFields ==
    /\ \A k \in 1..Len(scOut) : \A t \in RouteTypes :
          scOut[k][t].score
            = CalculateScore([routeType |-> scOut[k][t].routeType,
                              totalDistance |-> scOut[k][t].totalDistance,
                              totalDuration |-> scOut[k][t].totalDuration,
                              attractionsAlongRoute |-> scOut[k][t].attractionsAlongRoute])
    /\ \A j, k \in 1..Len(scOut) : \A t \in RouteTypes :
          scOut[j][t].score = scOut[k][t].score

\* two runs in a row have persisted a scenic route with two attractions and
\* a score that is not zero
C14_Witness ==
    /\ Len(scOut) >= 2
    /\ Len(scOut[2]["scenic"].attractionsAlongRoute) = 2
    /\ scOut[2]["scenic"].score # FromInt(0)
    /\ scOut[2]["recommended"].score # scOut[2]["shortest"].score
    /\ scOut[1]["scenic"].id # scOut[2]["scenic"].id

(***************************************************************************)
(* calculateCompletionPercentage alone, on every combination of the fields *)
(* it reads.  Documents read back from the store have passed the required  *)
(* validators, so they hold the first four units; a document still in      *)
(* memory can lack any of them.                                            *)
(***************************************************************************)
EmptyDay == [dayNumber |-> 1, places |-> <<>>]
FilledDay == [dayNumber |-> 2, places |-> <<Sigiriya>>]

CompletionDocs ==
    [tripName : {Undefined, <<"">>, <<"Hill country">>},
     startDate : {Undefined, Num(0)},
     endDate : {Undefined, Num(0)},
     startLocation : {Undefined, <<StartLocation>>},
     endLocation : {Undefined, <<EndLocation>>},
     dayPlans : {<<>>, <<EmptyDay>>, <<FilledDay>>, <<EmptyDay, FilledDay>>},
     selectedRoute : {NoSelectedRoute, "recommended"}]

InitCp ==
    /\ StoreIdle
    /\ WpIdle
    /\ EnIdle
    /\ CostIdle
    /\ ScIdle
    /\ TrIdle
    /\ BkIdle
    /\ LfIdle
    /\ cpIn \in CompletionDocs
    /\ cpOut = NoPercentage

\* itinerary.calculateCompletionPercentage()
CP_Calculate ==
    /\ ~cpOut.done
    /\ cpOut' = [done |-> TRUE, percentage |-> CalculateCompletionPercentage(cpIn)]
    /\ UNCHANGED <<cpIn, storeVars, wpVars, enVars, costVars, scVars, trVars, bkVars, lfVars>>

NextCp == CP_Calculate

SpecCp == InitCp /\ [][NextCp]_vars

\* k / 7 x 100 rounded to the nearest whole number, in integers
RoundedShare(k) == (200 * k + TotalSteps) \div (2 * TotalSteps)

\* doc2 holds every unit doc1 holds and exactly one more
OneMoreUnit(doc1, doc2) ==
    \E i \in 1..TotalSteps :
        /\ ~Units(doc1)[i]
        /\ Units(doc2)[i]
        /\ \A j \in (1..TotalSteps) \ {i} : Units(doc1)[j] = Units(doc2)[j]

\* C15: the percentage returned is round(completedUnits / 7 x 100) over the
\* seven units, lies in 0..100, is 100 only when all seven units hold, and
\* is not smaller for a document that holds one more unit
C15_CompletionPercentage ==
    cpOut.done =>
        /\ cpOut.percentage = RoundedShare(CompletedSteps(cpIn))
        /\ cpOut.percentage \in 0..100
        /\ cpOut.percentage = 100 => \A i \in 1..TotalSteps : Units(cpIn)[i]
        /\ \A doc \in CompletionDocs :
              OneMoreUnit(cpIn, doc) => CalculateCompletionPercentage(doc) >= cpOut.percentage

\* three of the seven units hold and the percentage returned is 43, and a
\* document with one more unit exists
C15_Witness ==
    /\ cpOut.done
    /\ CompletedSteps(cpIn) = 3
    /\ cpOut.percentage = 43
    /\ \E doc \in CompletionDocs : OneMoreUnit(cpIn, doc)

(***************************************************************************)
(* getMyTrips (myTrips.controller.js lines 9-138) alone, on the itineraries *)
(* of one user.  Times are milliseconds.  Every stored itinerary has       *)
(* passed the required validators of the schema: it has a name, both       *)
(* dates and both locations; nothing checks that endDate follows           *)
(* startDate.                                                              *)
(***************************************************************************)
MsPerDay == 86400000

\* virtual daysUntilStart, read when the clock shows clock
DaysUntilStart(startDate, clock) ==
    IF startDate = Undefined THEN Undefined
    ELSE LET diffTime == startDate[1] - clock
         IN  IF diffTime <= 0 THEN Num(0)
             ELSE Num(MathCeil(DivBy(FromInt(diffTime), MsPerDay)))

\* lines 44-49: the three date predicates against the now of line 20
IsUpcoming(itinerary, now) == itinerary.startDate[1] > now
IsActive(itinerary, now) == itinerary.startDate[1] <= now /\ itinerary.endDate[1] >= now
IsCompleted(itinerary, now) == itinerary.endDate[1] < now

\* lines 54-73: the entry built for an itinerary; isCurrentlyActive and
\* daysRemaining are absent (FALSE, Undefined) until lines 91-95 add them
TripData(itinerary, now, clock) ==
    [id |-> itinerary.id,
     status |-> itinerary.status,
     startDate |-> itinerary.startDate,
     endDate |-> itinerary.endDate,
     completionPercentage |-> CalculateCompletionPercentage(itinerary),
     daysUntilStart |-> DaysUntilStart(itinerary.startDate, clock),
     isUpcoming |-> IsUpcoming(itinerary, now),
     isActive |-> IsActive(itinerary, now),
     isCompleted |-> IsCompleted(itinerary, now),
     updatedAt |-> itinerary.updatedAt,
     isCurrentlyActive |-> FALSE,
     daysRemaining |-> Undefined]

\* line 76 without the completion test
GoesToUnfinished_AnyDraft(tripData) == tripData.status = "draft"

\* line 76
GoesToUnfinished(tripData) ==
    tripData.status = "draft" /\ tripData.completionPercentage < 100

\* lines 79-84
GoesToSaved(tripData) ==
    /\ ~GoesToUnfinished(tripData)
    /\ \/ tripData.status = "planned"
       \/ tripData.status = "draft" /\ tripData.completionPercentage = 100
    /\ \/ tripData.isUpcoming
       \/ ~tripData.isUpcoming /\ ~tripData.isActive /\ ~tripData.isCompleted

\* lines 87-96 with the days remaining counted from the start date
UpcomingEntries_FromStart(tripData, now) ==
    IF tripData.isUpcoming /\ tripData.status \in {"planned", "active"}
    THEN <<tripData>>
    ELSE IF tripData.isActive /\ tripData.status = "active"
    THEN << [tripData EXCEPT
               !.isCurrentlyActive = TRUE,
               !.daysRemaining =
                   Num(MathCeil(DivBy(FromInt(tripData.endDate[1] - tripData.startDate[1]),
                                      MsPerDay)))] >>
    ELSE <<>>

\* lines 87-96: what the itinerary adds to upcomingTrips
UpcomingEntries(tripData, now) ==
    IF tripData.isUpcoming /\ tripData.status \in {"planned", "active"}
    THEN <<tripData>>
    ELSE IF tripData.isActive /\ tripData.status = "active"
    THEN << [tripData EXCEPT
               !.isCurrentlyActive = TRUE,
               !.daysRemaining =
                   Num(MathCeil(DivBy(FromInt(tripData.endDate[1] - now), MsPerDay)))] >>
    ELSE <<>>

\* Array.prototype.sort with the comparator (a, b) => key(a) - key(b): a
\* stable sort by rising key; keys[i] is the key of list[i]
SortByKey(list, keys) ==
    LET n == Len(list)
        Rank(i) == Cardinality({j \in 1..n : keys[j] < keys[i] \/ (keys[j] = keys[i] /\ j < i)}) + 1
    IN  [p \in 1..n |-> list[CHOOSE i \in 1..n : Rank(i) = p]]

\* the lists left in the order of the loop
SortTrips_Unsorted(out) == out

\* lines 100-102
SortTrips(out) ==
    [out EXCEPT
       !.savedPlans =
           SortByKey(out.savedPlans,
                     [i \in 1..Len(out.savedPlans) |-> 0 - out.savedPlans[i].updatedAt]),
       !.unfinishedTrips =
           SortByKey(out.unfinishedTrips,
                     [i \in 1..Len(out.unfinishedTrips) |-> 0 - out.unfinishedTrips[i].completionPercentage]),
       !.upcomingTrips =
           SortByKey(out.upcomingTrips,
                     [i \in 1..Len(out.upcomingTrips) |-> out.upcomingTrips[i].daysUntilStart[1]])]

\* the clock of the request when line 20 reads it
Now0 == 5 * MsPerDay

\* start and end dates around the clock: over, running, starting in a
\* millisecond, starting in ten days, and ending before the start
DateRanges ==
    { [startDate |-> Now0 - 3 * MsPerDay, endDate |-> Now0 - MsPerDay],
      [startDate |-> Now0 - MsPerDay, endDate |-> Now0 + MsPerDay + 1],
      [startDate |-> Now0, endDate |-> Now0],
      [startDate |-> Now0 + 1, endDate |-> Now0 + 2 * MsPerDay],
      [startDate |-> Now0 + 10 * MsPerDay, endDate |-> Now0 + 12 * MsPerDay],
      [startDate |-> Now0 + 2 * MsPerDay, endDate |-> Now0 - MsPerDay] }

\* what the plan of an itinerary holds: nothing, an empty day, a place, a
\* place and a selected route (4, 5, 6 and 7 units of the checklist)
NoDays == [dayPlans |-> <<>>, selectedRoute |-> NoSelectedRoute]
OneEmptyDay == [dayPlans |-> <<EmptyDay>>, selectedRoute |-> NoSelectedRoute]
OnePlace == [dayPlans |-> <<FilledDay>>, selectedRoute |-> NoSelectedRoute]
RouteChosen == [dayPlans |-> <<FilledDay>>, selectedRoute |-> "recommended"]

\* the status set by createItinerary (draft) or by updateItinerary (any),
\* with the progress of the plan
StatusProgress ==
    ({"draft"} \X {NoDays, OnePlace, RouteChosen})
      \cup ({"planned"} \X {OneEmptyDay, RouteChosen})
      \cup ({"active", "completed", "cancelled"} \X {RouteChosen})

\* updatedAt orders the saved list only, so it varies for the itineraries
\* that can be put there
UpdatedAts(status, progress) ==
    IF status = "planned" \/ (status = "draft" /\ progress = RouteChosen)
    THEN {MsPerDay, 2 * MsPerDay}
    ELSE {MsPerDay}

StoredItinerary(status, dates, progress, updatedAt) ==
    [id |-> 0,
     status |-> status,
     tripName |-> <<"Hill country">>,
     startDate |-> Num(dates.startDate),
     endDate |-> Num(dates.endDate),
     startLocation |-> <<StartLocation>>,
     endLocation |-> <<EndLocation>>,
     dayPlans |-> progress.dayPlans,
     selectedRoute |-> progress.selectedRoute,
     updatedAt |-> updatedAt]

StoredItineraries ==
    UNION { { StoredItinerary(sp[1], dates, sp[2], updatedAt) :
                dates \in DateRanges, updatedAt \in UpdatedAts(sp[1], sp[2]) }
            : sp \in StatusProgress }

\* Itinerary.find({ userId }) of line 23: up to maxTrips documents, each
\* with its own _id
FoundItineraries(maxTrips) ==
    UNION { { [i \in 1..n |-> [list[i] EXCEPT !.id = i]] : list \in [1..n -> StoredItineraries] }
            : n \in 0..maxTrips }

InitTrips ==
    /\ StoreIdle
    /\ WpIdle
    /\ EnIdle
    /\ CostIdle
    /\ ScIdle
    /\ CpIdle
    /\ BkIdle
    /\ LfIdle
    /\ trIn \in [user : {Undefined, <<"u1">>}, now : {Now0},
                 itineraries : FoundItineraries(MaxTrips)]
    /\ trOut = [NoTrips EXCEPT !.pc = "start"]

\* lines 14-19: no authenticated user
TR_Unauthorized ==
    /\ trOut.pc = "start"
    /\ trIn.user = Undefined
    /\ trOut' = [trOut EXCEPT !.pc = "done", !.status = 401]
    /\ UNCHANGED <<trIn, storeVars, wpVars, enVars, costVars, scVars, cpVars, bkVars, lfVars>>

\* lines 21-40: the clock is read and the itineraries are fetched
TR_Find ==
    /\ trOut.pc = "start"
    /\ trIn.user # Undefined
    /\ trOut' = [trOut EXCEPT !.pc = "loop", !.clock = trIn.now, !.i = 1]
    /\ UNCHANGED <<trIn, storeVars, wpVars, enVars, costVars, scVars, cpVars, bkVars, lfVars>>

\* lines 42-97: one turn of the loop; the getter of daysUntilStart reads the
\* clock again, which has moved on by up to MaxElapsed milliseconds
TR_Classify ==
    /\ trOut.pc = "loop"
    /\ trOut.i <= Len(trIn.itineraries)
    /\ \E elapsed \in 0..MaxElapsed :
          LET clock == trOut.clock + elapsed
              tripData == TripData(trIn.itineraries[trOut.i], trIn.now, clock)
          IN  trOut' = [trOut EXCEPT
                          !.clock = clock,
                          !.i = @ + 1,
                          !.unfinishedTrips =
                              IF GoesToUnfinished(tripData) THEN Append(@, tripData) ELSE @,
                          !.savedPlans =
                              IF GoesToSaved(tripData) THEN Append(@, tripData) ELSE @,
                          !.upcomingTrips = @ \o UpcomingEntries(tripData, trIn.now)]
    /\ UNCHANGED <<trIn, storeVars, wpVars, enVars, costVars, scVars, cpVars, bkVars, lfVars>>

\* lines 99-127: the three lists are sorted and answered
TR_Sort ==
    /\ trOut.pc = "loop"
    /\ trOut.i > Len(trIn.itineraries)
    /\ trOut' = [SortTrips(trOut) EXCEPT !.pc = "done", !.status = 200]
    /\ UNCHANGED <<trIn, storeVars, wpVars, enVars, costVars, scVars, cpVars, bkVars, lfVars>>

NextTrips == TR_Unauthorized \/ TR_Find \/ TR_Classify \/ TR_Sort

SpecTrips == InitTrips /\ [][NextTrips]_vars

Found == trIn.itineraries
Answered == trOut.pc = "done" /\ trOut.status = 200

\* the itinerary has an entry in the list
Listed(list, itinerary) == \E k \in 1..Len(list) : list[k].id = itinerary.id
EntryOf(list, itinerary) == list[CHOOSE k \in 1..Len(list) : list[k].id = itinerary.id]

\* C16: an itinerary is in unfinished exactly when it is a draft with a
\* completion below 100, and then it is in neither saved nor upcoming,
\* whatever its dates
C16_UnfinishedBucket ==
    Answered =>
        \A n \in 1..Len(Found) :
            LET itinerary == Found[n]
                unfinished == itinerary.status = "draft"
                                /\ CalculateCompletionPercentage(itinerary) < 100
            IN  /\ Listed(trOut.unfinishedTrips, itinerary) <=> unfinished
                /\ unfinished => /\ ~Listed(trOut.savedPlans, itinerary)
                                 /\ ~Listed(trOut.upcomingTrips, itinerary)

\* a draft with four of the seven units and a start date ahead is answered
\* in unfinished with completion 57
C16_Witness ==
    /\ Answered
    /\ \E n \in 1..Len(Found) :
          /\ Found[n].status = "draft"
          /\ Found[n].startDate[1] > trIn.now
          /\ Listed(trOut.unfinishedTrips, Found[n])
          /\ EntryOf(trOut.unfinishedTrips, Found[n]).completionPercentage = 57
    /\ \E n \in 1..Len(Found) :
          /\ Found[n].status = "draft"
          /\ ~Listed(trOut.unfinishedTrips, Found[n])

\* C17: an itinerary is in saved exactly when it is planned, or a draft with
\* completion 100, and it is upcoming or none of upcoming, active and
\* completed; a planned itinerary whose dates make it active or completed is
\* not in saved
C17_SavedBucket ==
    Answered =>
        \A n \in 1..Len(Found) :
            LET itinerary == Found[n]
                upcoming == itinerary.startDate[1] > trIn.now
                active == itinerary.startDate[1] <= trIn.now /\ itinerary.endDate[1] >= trIn.now
                completed == itinerary.endDate[1] < trIn.now
                ready == \/ itinerary.status = "planned"
                         \/ /\ itinerary.status = "draft"
                            /\ CalculateCompletionPercentage(itinerary) = 100
            IN  /\ Listed(trOut.savedPlans, itinerary)
                     <=> ready /\ (upcoming \/ (~upcoming /\ ~active /\ ~completed))
                /\ itinerary.status = "planned" /\ (active \/ completed)
                     => ~Listed(trOut.savedPlans, itinerary)

\* C18: an itinerary is in upcoming exactly when it starts after now and is
\* planned or active, or it runs now and is active; exactly the entries of
\* the second kind carry isCurrentlyActive and daysRemaining, which is
\* (endDate - now) in days, rounded up
C18_UpcomingBucket ==
    Answered =>
        \A n \in 1..Len(Found) :
            LET itinerary == Found[n]
                ahead == /\ itinerary.startDate[1] > trIn.now
                         /\ itinerary.status \in {"planned", "active"}
                running == /\ itinerary.startDate[1] <= trIn.now
                           /\ trIn.now <= itinerary.endDate[1]
                           /\ itinerary.status = "active"
                entry == EntryOf(trOut.upcomingTrips, itinerary)
            IN  /\ Listed(trOut.upcomingTrips, itinerary) <=> (ahead \/ running)
                /\ Cardinality({k \in 1..Len(trOut.upcomingTrips) :
                                   trOut.upcomingTrips[k].id = itinerary.id}) <= 1
                /\ running =>
                     /\ entry.isCurrentlyActive
                     /\ entry.daysRemaining
                          = Num((itinerary.endDate[1] - trIn.now + MsPerDay - 1) \div MsPerDay)
                /\ ahead => ~entry.isCurrentlyActive /\ entry.daysRemaining = Undefined

\* an active itinerary that is running and one that starts later are both
\* answered in upcoming; the running one has two days remaining
C18_Witness ==
    /\ Answered
    /\ \E k \in 1..Len(trOut.upcomingTrips) :
          /\ trOut.upcomingTrips[k].isCurrentlyActive
          /\ trOut.upcomingTrips[k].daysRemaining = Num(2)
    /\ \E k \in 1..Len(trOut.upcomingTrips) :
          /\ ~trOut.upcomingTrips[k].isCurrentlyActive
          /\ trOut.upcomingTrips[k].status = "active"

\* C19: a planned itinerary that starts after now is in saved and in
\* upcoming, and its daysUntilStart is (startDate - now) in days, rounded
\* up; no itinerary is in all three lists
C19_PlannedFuture ==
    Answered =>
        \A n \in 1..Len(Found) :
            LET itinerary == Found[n]
            IN  /\ itinerary.status = "planned" /\ itinerary.startDate[1] > trIn.now
                     => /\ Listed(trOut.savedPlans, itinerary)
                        /\ Listed(trOut.upcomingTrips, itinerary)
                        /\ EntryOf(trOut.upcomingTrips, itinerary).daysUntilStart
                             = Num((itinerary.startDate[1] - trIn.now + MsPerDay - 1) \div MsPerDay)
                        /\ EntryOf(trOut.savedPlans, itinerary).daysUntilStart
                             = Num((itinerary.startDate[1] - trIn.now + MsPerDay - 1) \div MsPerDay)
                /\ ~ /\ Listed(trOut.savedPlans, itinerary)
                     /\ Listed(trOut.unfinishedTrips, itinerary)
                     /\ Listed(trOut.upcomingTrips, itinerary)

\* C20: saved is answered by falling updatedAt, unfinished by falling
\* completion percentage, upcoming by rising daysUntilStart
C20_SortOrders ==
    Answered =>
        /\ \A k \in 1..(Len(trOut.savedPlans) - 1) :
              trOut.savedPlans[k].updatedAt >= trOut.savedPlans[k + 1].updatedAt
        /\ \A k \in 1..(Len(trOut.unfinishedTrips) - 1) :
              trOut.unfinishedTrips[k].completionPercentage
                >= trOut.unfinishedTrips[k + 1].completionPercentage
        /\ \A k \in 1..(Len(trOut.upcomingTrips) - 1) :
              trOut.upcomingTrips[k].daysUntilStart[1]
                <= trOut.upcomingTrips[k + 1].daysUntilStart[1]

\* the loop met the three lists in the other order: each holds two entries
\* with different keys, answered in the order of the claim
C20_Witness ==
    /\ Answered
    /\ Len(Found) = 2
    /\ \/ /\ Len(trOut.savedPlans) = 2
          /\ trOut.savedPlans[1].id = 2
          /\ trOut.savedPlans[1].updatedAt > trOut.savedPlans[2].updatedAt
       \/ /\ Len(trOut.unfinishedTrips) = 2
          /\ trOut.unfinishedTrips[1].id = 2
          /\ trOut.unfinishedTrips[1].completionPercentage
               > trOut.unfinishedTrips[2].completionPercentage
    /\ Len(trOut.upcomingTrips) = 2
    /\ trOut.upcomingTrips[1].id = 2
    /\ trOut.upcomingTrips[1].daysUntilStart[1] < trOut.upcomingTrips[2].daysUntilStart[1]

(***************************************************************************)
(* The three mutating handlers called by a user who does not own the       *)
(* itinerary: it1 belongs to u1 and every request here is made by u2.      *)
(* calculateRoutes (lines 14-28) and updateItinerary (service lines        *)
(* 264-275) never read the caller; deleteItinerary filters on userId.      *)
(***************************************************************************)
Owner == "u1"
Caller == "u2"

OwnedItineraries == [i \in {"it1"} |-> NewItinerary(Owner, <<EmptyDay>>)]

InitOwn ==
    /\ itineraries = OwnedItineraries
    /\ routes = {}
    /\ pc = [p \in Reqs |-> "idle"]
    /\ rq = [p \in Reqs |-> IdleRequest]
    /\ ops = 0
    /\ WpIdle
    /\ EnIdle
    /\ PureIdle

NextOwn ==
    \/ CR_FindById(1, "it1")
    \/ CR_CalculateShortest(1)
    \/ CR_CalculateRecommended(1)
    \/ CR_DeleteMany(1)
    \/ CR_SaveRoute(1)
    \/ CR_SearchNearby(1)
    \/ CR_SelectRoute(1)
    \/ \E dayPlans \in StoredDayPlans : UpdateItinerary("it1", dayPlans)
    \/ DeleteItinerary("it1", Caller)

SpecOwn == InitOwn /\ [][NextOwn]_vars

\* C21: a request of a user on an itinerary of another user to calculate
\* routes, to update or to delete is rejected, and the itinerary, its
\* selectedRoute and its routes stay as they were
C21_ForeignMutationRejected ==
    /\ itineraries = OwnedItineraries
    /\ routes = {}
    /\ pc[1] = "done" => rq[1].status \notin {200}

BookingItems(planningBookings) ==
    LET pb == planningBookings[1]
    IN  [i \in 1..Len(pb.accommodations) |-> [type |-> "accommodation", serviceId |-> pb.accommodations[i]]]
          \o [i \in 1..Len(pb.transportation) |-> [type |-> "transportation", serviceId |-> pb.transportation[i]]]
          \o [i \in 1..Len(pb.guides) |-> [type |-> "guide", serviceId |-> pb.guides[i]]]

\* what the booking service can answer to one post: no answer (timeout,
\* refused connection, error status), success: false, or success: true with
\* the identifier of the booking it made
BookingResponses(item) ==
    { [kind |-> "threw", success |-> FALSE, bookingId |-> "none"],
      [kind |-> "answered", success |-> FALSE, bookingId |-> "none"],
      [kind |-> "answered", success |-> TRUE, bookingId |-> item.serviceId] }

\* a loop that takes the identifier of every answer
PostBooking_AnyAnswer(bookingResults, item, response) ==
    IF response.kind = "answered"
    THEN Append(bookingResults, [type |-> item.type, bookingId |-> response.bookingId])
    ELSE bookingResults

\* one turn of a loop of createIndividualBookings: the try around axios.post
\* and the test of response.data.success
PostBooking(bookingResults, item, response) ==
    IF response.kind = "answered" /\ response.success
    THEN Append(bookingResults, [type |-> item.type, bookingId |-> response.bookingId])
    ELSE bookingResults

\* the forEach that sorts the identifiers by type
BookingIdsOf(bookingResults) ==
    LET Ids(type) == SelectSeq(bookingResults, LAMBDA result : result.type = type)
    IN  [accommodations |-> [i \in 1..Len(Ids("accommodation")) |-> Ids("accommodation")[i].bookingId],
         transportation |-> [i \in 1..Len(Ids("transportation")) |-> Ids("transportation")[i].bookingId],
         guides |-> [i \in 1..Len(Ids("guide")) |-> Ids("guide")[i].bookingId]]

NoBookingIds == [accommodations |-> <<>>, transportation |-> <<>>, guides |-> <<>>]

PlanningBookings(maxBookings) ==
    {Undefined} \cup
    { <<[accommodations |-> a, transportation |-> t, guides |-> g]>> :
        a \in SeqsUpTo({"hotel"}, maxBookings),
        t \in SeqsUpTo({"van"}, maxBookings),
        g \in SeqsUpTo({"guide"}, maxBookings) }

InitBk ==
    /\ StoreIdle
    /\ WpIdle
    /\ EnIdle
    /\ CostIdle
    /\ ScIdle
    /\ CpIdle
    /\ TrIdle
    /\ LfIdle
    /\ bkIn \in [user : {Undefined, <<"u1">>}, tripData : BOOLEAN,
                 planningBookings : PlanningBookings(MaxBookings)]
    /\ bk = [NoStoredTrip EXCEPT !.pc = "start"]

\* up to the first itinerary.save(): the 401 and 400 answers, the document
\* with status completed, and the catch of a rejected save
BK_SaveItinerary ==
    /\ bk.pc = "start"
    /\ IF bkIn.user = Undefined
       THEN bk' = [bk EXCEPT !.pc = "done", !.status = 401]
       ELSE IF ~bkIn.tripData
       THEN bk' = [bk EXCEPT !.pc = "done", !.status = 400]
       ELSE \E accepted \in BOOLEAN :
               IF accepted
               THEN bk' = [bk EXCEPT !.pc = "book",
                                     !.stored = <<[status |-> "completed",
                                                   bookingIds |-> NoBookingIds]>>]
               ELSE bk' = [bk EXCEPT !.pc = "done", !.status = 500]
    /\ UNCHANGED <<bkIn, storeVars, wpVars, enVars, costVars, scVars, cpVars, trVars, lfVars>>

\* one axios.post of createIndividualBookings and what follows its answer
BK_PostBooking ==
    /\ bk.pc = "book"
    /\ bkIn.planningBookings # Undefined
    /\ bk.idx <= Len(BookingItems(bkIn.planningBookings))
    /\ LET item == BookingItems(bkIn.planningBookings)[bk.idx]
       IN  \E response \in BookingResponses(item) :
              bk' = [bk EXCEPT
                       !.idx = @ + 1,
                       !.bookingResults = PostBooking(@, item, response),
                       !.outcomes = Append(@, IF response.kind = "threw" THEN "threw"
                                              ELSE IF response.success THEN "confirmed"
                                              ELSE "refused"),
                       !.confirmed = IF response.kind = "answered" /\ response.success
                                     THEN @ \cup {response.bookingId} ELSE @]
    /\ UNCHANGED <<bkIn, storeVars, wpVars, enVars, costVars, scVars, cpVars, trVars, lfVars>>

\* createIndividualBookings has returned, or thrown on an absent
\* planningBookings: the identifiers are saved when there are any, a
\* rejected save is caught, and 201 is answered
BK_SaveBookingIds ==
    /\ bk.pc = "book"
    /\ \/ bkIn.planningBookings = Undefined
       \/ /\ bkIn.planningBookings # Undefined
          /\ bk.idx > Len(BookingItems(bkIn.planningBookings))
    /\ \E accepted \in BOOLEAN :
          bk' = [bk EXCEPT
                   !.pc = "done",
                   !.status = 201,
                   !.stored = IF Len(bk.bookingResults) > 0 /\ accepted
                              THEN <<[@[1] EXCEPT !.bookingIds = BookingIdsOf(bk.bookingResults)]>>
                              ELSE @]
    /\ UNCHANGED <<bkIn, storeVars, wpVars, enVars, costVars, scVars, cpVars, trVars, lfVars>>

NextBk == BK_SaveItinerary \/ BK_PostBooking \/ BK_SaveBookingIds

SpecBk == InitBk /\ [][NextBk]_vars

StoredBookingIds ==
    LET ids == bk.stored[1].bookingIds
    IN  {ids.accommodations[i] : i \in 1..Len(ids.accommodations)}
          \cup {ids.transportation[i] : i \in 1..Len(ids.transportation)}
          \cup {ids.guides[i] : i \in 1..Len(ids.guides)}

\* C23: once the itinerary is saved, whatever booking posts fail, it stays
\* stored with status completed, the request is answered 201, and the
\* stored bookingIds are identifiers the booking service confirmed
C23_BookingFailuresTolerated ==
    /\ bk.stored # Undefined =>
          /\ bk.stored[1].status = "completed"
          /\ StoredBookingIds \subseteq bk.confirmed
          /\ bk.pc = "done" => bk.status = 201
    /\ bk.status = 201 => bk.stored # Undefined

\* three bookings were posted, none succeeded (one post threw, one was
\* refused), and the request is answered
C23_Witness ==
    /\ bk.pc = "done"
    /\ Len(bk.outcomes) = 3
    /\ bk.confirmed = {}
    /\ \E i, j \in 1..3 : bk.outcomes[i] = "threw" /\ bk.outcomes[j] = "refused"
    /\ bk.stored # Undefined

\* C24: the store writes of a calculateRoutes run come in the order delete,
\* three inserts, selectedRoute: inserts begin only after the run's delete,
\* selectedRoute is written only by a run that has inserted its three
\* routes, and a run that ends with 200 leaves selectedRoute 'recommended'
\* whatever it was before
C24_WriteOrder ==
    [][\A p \in Reqs :
          LET id == rq[p].itineraryId
          IN  /\ (pc[p] = "delete" /\ pc'[p] = "save")
                    => /\ routes' = DeleteMany(routes, id)
                       /\ rq[p].saved = {}
                       /\ itineraries' = itineraries
              /\ (pc'[p] = "save" /\ pc[p] \notin {"save", "enrich"}) => pc[p] = "delete"
              /\ rq'[p].saved # rq[p].saved
                    => /\ pc[p] = "save"
                       /\ Cardinality(rq'[p].saved) = Cardinality(rq[p].saved) + 1
                       /\ \E r \in routes' \ routes :
                             /\ routes' = routes \cup {r}
                             /\ r.id \in rq'[p].saved \ rq[p].saved
                             /\ r.itineraryId = id
                       /\ itineraries' = itineraries
              /\ (pc[p] = "select" /\ pc'[p] = "done")
                    => /\ rq[p].saved = RouteIds(p)
                       /\ routes' = routes
                       /\ (rq'[p].status = 200 /\ id \in DOMAIN itineraries)
                             => itineraries'[id].selectedRoute = "recommended"
              /\ (pc[p] # "done" /\ pc'[p] = "done" /\ rq'[p].status = 200) => pc[p] = "select"
              /\ (id \in DOMAIN itineraries' /\ id \in DOMAIN itineraries
                    /\ itineraries'[id].selectedRoute # itineraries[id].selectedRoute)
                    => \E q \in Reqs : /\ pc[q] = "select" /\ pc'[q] = "done"
                                       /\ rq[q].saved = RouteIds(q)]_vars

\* a run ended with 200 on an itinerary that had routes and no selected
\* route when it began, and now has 'recommended'
C24_Witness ==
    \E p \in Reqs :
        /\ pc[p] = "done" /\ rq[p].status = 200
        /\ rq[p].pre # {}
        /\ rq[p].preSelected = NoSelectedRoute
        /\ SelectedRouteOf(itineraries, rq[p].itineraryId) = "recommended"

\* C25: a calculateRoutes run that stops after its delete and before its
\* end (a crash at any await, or a rejected store write answered 500)
\* leaves the itinerary without routes, never with one or two routes of the
\* run
C25_NoPartialGeneration ==
    \A p \in Reqs :
        (pc[p] \in {"save", "enrich", "select"} \/ (pc[p] = "done" /\ rq[p].status = 500))
            => Cardinality({r \in routes : r.id \in RouteIds(p)}) \notin {1, 2}

\* the route of the type that request p has stored
StoredRoutesOf(p, type) == {r \in routes : r.id = <<p, type>>}

\* C26: a calculateRoutes run calls the routing provider at most twice,
\* first with waypoint optimization and then in input order, and exactly
\* twice before it writes; the scenic route it stores has the
\* totalDistance, totalDuration, segments and overview (and waypoints) of
\* the recommended route it stores
C26_ScenicReusesRecommended ==
    \A p \in Reqs :
        /\ rq[p].directions \in {<<>>, <<TRUE>>, <<TRUE, FALSE>>}
        /\ pc[p] \in {"delete", "save", "enrich", "select"} => rq[p].directions = <<TRUE, FALSE>>
        /\ rq[p].saved # {} => rq[p].directions = <<TRUE, FALSE>>
        /\ \A scenic \in StoredRoutesOf(p, "scenic"), recommended \in StoredRoutesOf(p, "recommended") :
              /\ scenic.totalDistance = recommended.totalDistance
              /\ scenic.totalDuration = recommended.totalDuration
              /\ scenic.segments = recommended.segments
              /\ scenic.overview = recommended.overview
              /\ scenic.waypoints = recommended.waypoints
              /\ scenic.itineraryId = recommended.itineraryId

\* a run has stored its three routes: the shortest differs in distance from
\* the recommended, and the scenic carries an attraction
C26_Witness ==
    \E p \in Reqs :
        \E shortest \in StoredRoutesOf(p, "shortest"), recommended \in StoredRoutesOf(p, "recommended"),
           scenic \in StoredRoutesOf(p, "scenic") :
            /\ shortest.totalDistance # recommended.totalDistance
            /\ Len(scenic.attractionsAlongRoute) > 0
            /\ Len(scenic.segments) = 2
            /\ pc[p] = "done" /\ rq[p].status = 200

\* the first attraction pushed with the place identifier
FirstPushed(attractions, placeId) ==
    attractions[CHOOSE i \in 1..Len(attractions) :
                   /\ attractions[i].placeId = placeId
                   /\ \A j \in 1..(i - 1) : attractions[j].placeId # placeId]

\* C27: of the attractions pushed with one place identifier the returned
\* list keeps the first, in waypoint order then provider order, with the
\* name and rating of that first record, and only the first 5 results of a
\* waypoint are considered
C27_FirstOccurrenceWins ==
    (en.status = "returned" /\ \A w \in 1..Len(enIn) : enIn[w].ok) =>
        /\ \A k \in 1..Len(en.result) :
              en.result[k] = FirstPushed(en.attractions, en.result[k].placeId)
        /\ {en.result[k].placeId : k \in 1..Len(en.result)}
              = UNION {SlicedIds(enIn[w]) : w \in 1..Len(enIn)}

\* C28: every stored Route refers to an itinerary that is still stored
C28_NoOrphanRoutes ==
    \A r \in routes : r.itineraryId \in DOMAIN itineraries

(***************************************************************************)
(* The two trip classifiers over the store of calculateRoutes: getMyTrips  *)
(* (lines 9-138) and getMyTripsData (lines 204-329), which serves          *)
(* getTripsByCategory, asked for the owner's trips on the same store and   *)
(* with the same clock while a calculateRoutes request runs.               *)
(***************************************************************************)
\* the document of a stored itinerary as createItinerary wrote it: a draft
\* with a name, both locations and dates ten and twelve days ahead
Document(id, itinerary) ==
    [id |-> id,
     status |-> "draft",
     tripName |-> <<"Hill country">>,
     startDate |-> Num(Now0 + 10 * MsPerDay),
     endDate |-> Num(Now0 + 12 * MsPerDay),
     startLocation |-> <<itinerary.startLocation>>,
     endLocation |-> <<itinerary.endLocation>>,
     dayPlans |-> itinerary.dayPlans,
     selectedRoute |-> itinerary.selectedRoute,
     updatedAt |-> MsPerDay]

\* Itinerary.find({ userId }) over the store
DocumentsOf(its, userId) ==
    LET found == SelectSeq(<<"it2", "it1">>,
                           LAMBDA id : id \in DOMAIN its /\ its[id].userId = userId)
    IN  [k \in 1..Len(found) |-> Document(found[k], its[found[k]])]

\* the number of characters of the values the selectedRoute enum admits
StringLength(value) ==
    CASE value = "recommended" -> 11
      [] value = "shortest" -> 8
      [] value = "scenic" -> 6

\* mongoose.Types.ObjectId.isValid on a string: 12 characters, or 24 that
\* are all hexadecimal digits (no value of the enum is that long)
ObjectIdIsValid(value) == StringLength(value) \in {12, 24}

\* getMyTrips lines 28-51: a Route of the itinerary is in the routeMap
HasRoute_GetMyTrips(itinerary, rs) ==
    \E r \in rs : r.itineraryId = itinerary.id

\* getMyTripsData lines 218-246 and 273: the Route whose _id is the
\* itinerary's selectedRoute was found
HasRoute_GetMyTripsData(itinerary, rs) ==
    /\ itinerary.selectedRoute # NoSelectedRoute
    /\ ObjectIdIsValid(itinerary.selectedRoute)
    /\ \E r \in rs : r.id = itinerary.selectedRoute

\* the tripData of one itinerary with its hasRoute field
WithHasRoute(tripData, hasRoute) ==
    [f \in DOMAIN tripData \cup {"hasRoute"} |->
        IF f = "hasRoute" THEN hasRoute ELSE tripData[f]]

\* lines 75-96 and 302-319: the loop over the documents from the i-th on,
\* then the three sorts
RECURSIVE ClassifyFrom(_, _, _, _, _)
ClassifyFrom(docs, hasRoute, now, i, out) ==
    IF i > Len(docs)
    THEN SortTrips(out)
    ELSE LET tripData == WithHasRoute(TripData(docs[i], now, now), hasRoute[i])
         IN  ClassifyFrom(docs, hasRoute, now, i + 1,
                 [savedPlans |->
                      IF GoesToSaved(tripData)
                      THEN Append(out.savedPlans, tripData) ELSE out.savedPlans,
                  unfinishedTrips |->
                      IF GoesToUnfinished(tripData)
                      THEN Append(out.unfinishedTrips, tripData) ELSE out.unfinishedTrips,
                  upcomingTrips |-> out.upcomingTrips \o UpcomingEntries(tripData, now)])

NoLists == [savedPlans |-> <<>>, unfinishedTrips |-> <<>>, upcomingTrips |-> <<>>]

GetMyTrips(its, rs, userId, now) ==
    LET docs == DocumentsOf(its, userId)
    IN  ClassifyFrom(docs, [i \in 1..Len(docs) |-> HasRoute_GetMyTrips(docs[i], rs)],
                     now, 1, NoLists)

GetMyTripsData(its, rs, userId, now) ==
    LET docs == DocumentsOf(its, userId)
    IN  ClassifyFrom(docs, [i \in 1..Len(docs) |-> HasRoute_GetMyTripsData(docs[i], rs)],
                     now, 1, NoLists)

InitLife ==
    /\ \E dayPlans \in StoredDayPlans :
          itineraries = [i \in {"it1"} |-> NewItinerary(Owner, dayPlans)]
    /\ routes = {}
    /\ pc = [p \in Reqs |-> "idle"]
    /\ rq = [p \in Reqs |-> IdleRequest]
    /\ ops = 0
    /\ WpIdle
    /\ EnIdle
    /\ PureIdle

\* the owner asks both classifiers for their trips; the answer is kept with
\* the position and status of the calculateRoutes request at that moment
LF_Classify ==
    /\ Len(views) < MaxViews
    /\ views' = Append(views,
                       [phase |-> pc[1],
                        status |-> rq[1].status,
                        summary |-> GetMyTrips(itineraries, routes, Owner, Now0),
                        detail |-> GetMyTripsData(itineraries, routes, Owner, Now0)])
    /\ UNCHANGED <<storeVars, wpVars, enVars, costVars, scVars, cpVars, trVars, bkVars>>

NextLife ==
    \/ CR_FindById(1, "it1")
    \/ CR_CalculateShortest(1)
    \/ CR_CalculateRecommended(1)
    \/ CR_DeleteMany(1)
    \/ CR_SaveRoute(1)
    \/ CR_SearchNearby(1)
    \/ CR_SelectRoute(1)
    \/ LF_Classify

SpecLife == InitLife /\ [][NextLife]_vars

\* the identifier and hasRoute of the entries of a list, in order
RoutedIds(list) == [k \in 1..Len(list) |-> <<list[k].id, list[k].hasRoute>>]

RoutedLists(answer) ==
    [savedPlans |-> RoutedIds(answer.savedPlans),
     unfinishedTrips |-> RoutedIds(answer.unfinishedTrips),
     upcomingTrips |-> RoutedIds(answer.upcomingTrips)]

\* C29: on the same store and clock getMyTrips and getMyTripsData list the
\* same itineraries in the same lists in the same order with the same
\* hasRoute; an itinerary with computed routes and selectedRoute
\* 'recommended' has hasRoute true in both
C29_ClassifiersAgree ==
    \A k \in 1..Len(views) :
        /\ RoutedLists(views[k].summary) = RoutedLists(views[k].detail)
        /\ (views[k].phase = "done" /\ views[k].status = 200) =>
              /\ \A e \in 1..Len(views[k].summary.savedPlans) :
                    views[k].summary.savedPlans[e].hasRoute
              /\ \A e \in 1..Len(views[k].detail.savedPlans) :
                    views[k].detail.savedPlans[e].hasRoute

\* the identifier and completion of the entries of a list, in order
Completions(list) == [k \in 1..Len(list) |-> <<list[k].id, list[k].completionPercentage>>]

\* the lists an answer puts the itineraries in
BucketsOf(answer) ==
    [savedPlans |-> Completions(answer.savedPlans),
     unfinishedTrips |-> Completions(answer.unfinishedTrips)]

\* the itinerary of the store has a day plan with a place
HasPlace == \E d \in 1..Len(itineraries["it1"].dayPlans) :
               Len(itineraries["it1"].dayPlans[d].places) > 0

\* C30: a draft that starts in the future, has a place in a day plan and
\* no selected route is listed as unfinished at 86 percent; after a
\* successful calculateRoutes it is at 100 percent and listed as saved and
\* not as unfinished; after a failed calculateRoutes it is listed as before
C30_RoutesCompleteTheDraft ==
    HasPlace =>
        \A j \in 1..Len(views) :
            /\ views[j].phase = "idle" =>
                  /\ BucketsOf(views[j].summary)
                        = [savedPlans |-> <<>>, unfinishedTrips |-> << <<"it1", 86>> >>]
                  /\ BucketsOf(views[j].detail) = BucketsOf(views[j].summary)
            /\ (views[j].phase = "done" /\ views[j].status = 200) =>
                  /\ BucketsOf(views[j].summary)
                        = [savedPlans |-> << <<"it1", 100>> >>, unfinishedTrips |-> <<>>]
                  /\ BucketsOf(views[j].detail) = BucketsOf(views[j].summary)
            /\ (views[j].phase = "done" /\ views[j].status # 200) =>
                  /\ BucketsOf(views[j].summary)
                        = [savedPlans |-> <<>>, unfinishedTrips |-> << <<"it1", 86>> >>]
                  /\ BucketsOf(views[j].detail) = BucketsOf(views[j].summary)

\* the draft was listed before the request, and again after it succeeded
C30_Witness ==
    /\ HasPlace
    /\ Len(views) = 2
    /\ views[1].phase = "idle"
    /\ views[2].phase = "done" /\ views[2].status = 200
    /\ Len(views[1].summary.unfinishedTrips) = 1
    /\ Len(views[2].summary.savedPlans) = 1
    /\ routes # {}

====
